---- MODULE Spec2Model ----
(***************************************************************************)
(* Model of the git-process execution layer: git(), GitError and the       *)
(* error describer, together with the terminal-output pipeline git()       *)
(* attaches to the live process; and of the dialogs and the button of the  *)
(* user interface that call the dispatcher (CreateTag, DiscardSelection,   *)
(* ConfirmDiscardStashDialog, AddExistingRepository,                       *)
(* CommitConflictsWarning, CICheckReRunButton).                            *)
(*                                                                         *)
(* Text is a sequence of atoms.  An atom is one printable cell, a control  *)
(* character ("\r", "\n"), or a whole diagnostic phrase of Git that the    *)
(* classifier table recognises (PhraseCode).  A nullable value is a        *)
(* sequence of length 0 (null / undefined) or 1 (the value).               *)
(***************************************************************************)
EXTENDS Integers, Sequences, FiniteSets, TLC

VARIABLES
    pc,             \* position of the invocation of git()
    call,           \* the parameters args, path, name
    options,        \* the caller's options object (keys that are present)
    opts,           \* { ...defaultOptions, ...options }, later with env set
    resolverEnv,    \* env handed to the body by withTrampolineEnv
    spawnEnv,       \* opts.env as passed to exec()
    stdout,         \* stdout captured by exec()
    stderr,         \* stderr captured by exec()
    emitted,        \* number of chunks the process has emitted
    terminal,       \* state of the terminal stream the chunks are piped into
    streamEnded,    \* terminalStream.end() was called
    dataEmitted,    \* the tail stream has emitted its 'data' event
    terminalOutput, \* the local variable terminalOutput of git()
    execResult,     \* what exec() resolved with (nullable)
    execError,      \* what exec() rejected with (nullable)
    returned,       \* the result git() returned (nullable)
    thrown,         \* the error git() raised (nullable)
    usedOutput,     \* the terminalOutput git() read when it failed (nullable)
    log,            \* messages given to log.error
    parseCalls,     \* number of calls of parseError
    describeCalls,  \* number of calls of getDescriptionForError
    spawns,         \* number of times exec() was called
    platform,       \* the platform of the build (__DARWIN__, __WIN32__)
    describer,      \* a call of getDescriptionForError and of new GitError
    tail,           \* a tail stream and what was written to it
    normalizer,     \* a terminal stream and what was written to it
    lockParser,     \* a call of parseConfigLockFilePathFromError
    spawner,        \* a spawn by exec() and the callbacks it invokes
    tagDialog,      \* a CreateTag dialog and the calls it has made
    reRunButton,    \* a CICheckReRunButton and the outcome of the last event
    discardSelection, \* a DiscardSelection dialog and the calls it has made
    discardStash,   \* a ConfirmDiscardStashDialog and the calls it has made
    addExisting,    \* an AddExistingRepository dialog and its pending calls
    conflictsWarning \* a CommitConflictsWarning dialog and the calls it made

\* the variables of an invocation of git()
gitVars == <<pc, call, options, opts, resolverEnv, spawnEnv, stdout, stderr,
             emitted, terminal, streamEnded, dataEmitted, terminalOutput,
             execResult, execError, returned, thrown, usedOutput, log,
             parseCalls, describeCalls, spawns>>

\* the variables of the parts of git() taken on their own
partVars == <<describer, tail, normalizer, lockParser, spawner>>

\* the variables of the components of the user interface
uiVars == <<tagDialog, reRunButton, discardSelection, discardStash,
            addExisting, conflictsWarning>>

vars == <<gitVars, platform, partVars, uiVars>>

-----------------------------------------------------------------------------
(* Bounds *)

\* the number of chunks one process emits on stdout and stderr together
MaxChunks == 2

-----------------------------------------------------------------------------
(* Nullable values and text *)

Null == << >>
Some(v) == <<v>>
IsNull(o) == o = << >>
Get(o) == o[1]

\* String.prototype.slice(-n)
SliceLast(t, n) == IF Len(t) <= n THEN t ELSE SubSeq(t, Len(t) - n + 1, Len(t))

RECURSIVE Join(_, _)
\* Array.prototype.join
Join(parts, sep) ==
    IF parts = << >> THEN << >>
    ELSE IF Len(parts) = 1 THEN parts[1]
    ELSE parts[1] \o sep \o Join(Tail(parts), sep)

\* template-literal conversion of an exit code
NumberToText(n) ==
    CASE n = 0 -> <<"0">>
      [] n = 1 -> <<"1">>
      [] n = 128 -> <<"1", "2", "8">>
      [] OTHER -> <<"?">>

Contains(t, a) == \E i \in 1..Len(t) : t[i] = a

-----------------------------------------------------------------------------
(* The error enumeration, the classifier and the describer *)

AuthFailureErrors ==
    {"SSHAuthenticationFailed", "SSHPermissionDenied",
     "HTTPSAuthenticationFailed"}

\* the codes whose case returns a string literal
DescribedErrors ==
    {"SSHKeyAuditUnverified", "RemoteDisconnection", "HostDown",
     "RebaseConflicts", "MergeConflicts", "HTTPSRepositoryNotFound",
     "SSHRepositoryNotFound", "PushNotFastForward", "BranchDeletionFailed",
     "DefaultBranchDeletionFailed", "RevertConflicts", "EmptyRebasePatch",
     "NoMatchingRemoteBranch", "NothingToCommit", "NoSubmoduleMapping",
     "SubmoduleRepositoryDoesNotExist", "InvalidSubmoduleSHA",
     "LocalPermissionDenied", "InvalidMerge", "InvalidRebase",
     "NonFastForwardMergeIntoEmptyHead", "PatchDoesNotApply",
     "BranchAlreadyExists", "BadRevision", "NotAGitRepository",
     "ProtectedBranchForcePush", "ProtectedBranchRequiresReview",
     "PushWithFileSizeExceedingLimit", "HexBranchNameRejected",
     "ForcePushRejected", "InvalidRefLength",
     "CannotMergeUnrelatedHistories", "PushWithPrivateEmail",
     "LFSAttributeDoesNotMatch", "ProtectedBranchDeleteRejected",
     "ProtectedBranchRequiredStatus", "BranchRenameFailed",
     "PathDoesNotExist", "InvalidObjectName", "OutsideRepository",
     "LockFileAlreadyExists", "NoMergeToAbort", "NoExistingRemoteBranch",
     "LocalChangesOverwritten", "UnresolvedConflicts", "TagAlreadyExists"}

\* the codes whose case returns null
NullDescribedErrors ==
    {"ConfigLockFileAlreadyExists", "RemoteAlreadyExists",
     "MergeWithLocalChanges", "RebaseWithLocalChanges",
     "GPGFailedToSignData", "ConflictModifyDeletedInBranch",
     "MergeCommitNoMainlineOption", "UnsafeDirectory",
     "PathExistsButNotInRef"}

\* the enumeration as the switch of getDescriptionForError covers it
DugiteError ==
    AuthFailureErrors \cup {"BadConfigValue"} \cup DescribedErrors
        \cup NullDescribedErrors

\* isAuthFailureError without its case for HTTPS
isAuthFailureError_NoHttps(error) ==
    error \in {"SSHAuthenticationFailed", "SSHPermissionDenied"}

isAuthFailureError(error) == error \in AuthFailureErrors

\* Diagnostic phrases of Git, each one atom of text.
PushRejectedPhrase == "! [rejected] (non-fast-forward)"
ConfigLockPhrase == "error: could not lock config file: File exists"
PublicKeyPhrase == "Permission denied (publickey)"
BadConfigPhrase == "fatal: bad config value"

\* The ordered pattern table of the classifier: <<phrase, code>>.
ErrorTable ==
    << <<PublicKeyPhrase, "SSHPermissionDenied">>,
       <<PushRejectedPhrase, "PushNotFastForward">>,
       <<BadConfigPhrase, "BadConfigValue">>,
       <<ConfigLockPhrase, "ConfigLockFileAlreadyExists">> >>

\* parseError: the code of the first table entry whose pattern occurs in
\* the text, null when none does.
parseError(text) ==
    LET hits == {i \in 1..Len(ErrorTable) : Contains(text, ErrorTable[i][1])}
    IN  IF hits = {} THEN Null
        ELSE Some(ErrorTable[CHOOSE i \in hits : \A j \in hits : i <= j][2])

\* parseBadConfigValueErrorInfo: the key and value of the message, if any.
parseBadConfigValueErrorInfo(text) ==
    IF Contains(text, BadConfigPhrase) THEN Some(<<"key", "value">>) ELSE Null

\* the string literal the case of this code returns (cases that fall
\* through to a shared return give the same text)
DescriptionLiteral(error) ==
    IF error = "SSHRepositoryNotFound"
    THEN <<"description", "HTTPSRepositoryNotFound">>
    ELSE <<"description", error>>

\* a thrown error in place of a returned value
Throws(message) == <<"throw", message>>
IsThrow(o) == Len(o) = 2

\* assertNever(x, message): a fatal error with that message
assertNever(x, message) == Throws(message)

\* the menu the message for authentication failures points to
menuHint ==
    IF platform = "darwin" THEN "GitHub Desktop > Settings"
    ELSE "File > Settings"

\* a describer that gives the description of a call only the first time
getDescriptionForError_OnlyOnce(error, stderrText) ==
    IF describer.pc # "called" THEN Null
    ELSE IF isAuthFailureError(error)
    THEN Some(<<"description", "AuthFailure", menuHint>>)
    ELSE CASE error = "BadConfigValue" ->
                LET errorInfo == parseBadConfigValueErrorInfo(stderrText)
                IN  IF IsNull(errorInfo)
                    THEN Some(<<"description", "BadConfigValue">>)
                    ELSE Some(<<"description", "BadConfigValue">>
                                  \o Get(errorInfo))
           [] error \in DescribedErrors -> Some(DescriptionLiteral(error))
           [] error \in NullDescribedErrors -> Null
           [] OTHER -> assertNever(error, <<"unknown error: ", error>>)

\* the describer with a default branch that returns null
getDescriptionForError_DefaultNull(error, stderrText) ==
    IF isAuthFailureError(error)
    THEN Some(<<"description", "AuthFailure", menuHint>>)
    ELSE CASE error = "BadConfigValue" ->
                LET errorInfo == parseBadConfigValueErrorInfo(stderrText)
                IN  IF IsNull(errorInfo)
                    THEN Some(<<"description", "BadConfigValue">>)
                    ELSE Some(<<"description", "BadConfigValue">>
                                  \o Get(errorInfo))
           [] error \in DescribedErrors -> Some(DescriptionLiteral(error))
           [] OTHER -> Null

\* the describer with a generic string for the codes without a message
getDescriptionForError_GenericString(error, stderrText) ==
    IF isAuthFailureError(error)
    THEN Some(<<"description", "AuthFailure", menuHint>>)
    ELSE CASE error = "BadConfigValue" ->
                LET errorInfo == parseBadConfigValueErrorInfo(stderrText)
                IN  IF IsNull(errorInfo)
                    THEN Some(<<"description", "BadConfigValue">>)
                    ELSE Some(<<"description", "BadConfigValue">>
                                  \o Get(errorInfo))
           [] error \in DescribedErrors -> Some(DescriptionLiteral(error))
           [] error \in NullDescribedErrors -> Some(<<"description", "Git">>)
           [] OTHER -> assertNever(error, <<"unknown error: ", error>>)

getDescriptionForError(error, stderrText) ==
    IF isAuthFailureError(error)
    THEN Some(<<"description", "AuthFailure", menuHint>>)
    ELSE CASE error = "BadConfigValue" ->
                LET errorInfo == parseBadConfigValueErrorInfo(stderrText)
                IN  IF IsNull(errorInfo)
                    THEN Some(<<"description", "BadConfigValue">>)
                    ELSE Some(<<"description", "BadConfigValue">>
                                  \o Get(errorInfo))
           [] error \in DescribedErrors -> Some(DescriptionLiteral(error))
           [] error \in NullDescribedErrors -> Null
           [] OTHER -> assertNever(error, <<"unknown error: ", error>>)

-----------------------------------------------------------------------------
(* The terminal stream and the tail stream *)

\* a terminal that has displayed nothing
createTerminalStream ==
    [lines |-> << >>, cur |-> << >>, col |-> 0, cr |-> FALSE]

\* a printable atom written at the cursor: it overwrites the cell there or
\* extends the line
PutAtom(t, a) ==
    [t EXCEPT !.cur = IF t.col < Len(t.cur)
                      THEN [t.cur EXCEPT ![t.col + 1] = a]
                      ELSE Append(t.cur, a),
              !.col = t.col + 1]

\* "\n" finalizes the current line
NewLine(t) ==
    [t EXCEPT !.lines = Append(t.lines, t.cur), !.cur = << >>, !.col = 0,
              !.cr = FALSE]

\* one atom arrives and a "\r" erases the current line at once
TerminalAtom_ErasesAtOnce(t, a) ==
    IF a = "\n" THEN NewLine(t)
    ELSE IF a = "\r" THEN [t EXCEPT !.cur = << >>, !.col = 0]
    ELSE PutAtom(t, a)

\* one atom arrives; a "\r" takes effect when the atom after it is known
TerminalAtom(t, a) ==
    IF a = "\n" THEN NewLine(t)
    ELSE IF a = "\r" THEN [t EXCEPT !.cr = TRUE]
    ELSE IF t.cr THEN PutAtom([t EXCEPT !.col = 0, !.cr = FALSE], a)
    ELSE PutAtom(t, a)

RECURSIVE TerminalWriteAtoms(_, _)
\* the atoms of a chunk, one after the other: the first half of the chunk,
\* then the second, and the state looked at before the chunk, which keeps
\* the evaluation of a long chunk shallow
TerminalWriteAtoms(t, chunk) ==
    IF t.col < 0 \/ chunk = << >> THEN t
    ELSE IF Len(chunk) = 1 THEN TerminalAtom(t, chunk[1])
    ELSE LET half == Len(chunk) \div 2
         IN  TerminalWriteAtoms(
                 TerminalWriteAtoms(t, SubSeq(chunk, 1, half)),
                 SubSeq(chunk, half + 1, Len(chunk)))

\* a write that forgets a "\r" at the end of its chunk
TerminalWrite_ForgetsCR(t, chunk) ==
    [TerminalWriteAtoms(t, chunk) EXCEPT !.cr = FALSE]

\* one chunk is written to the terminal stream
TerminalWrite(t, chunk) ==
    TerminalWriteAtoms(t, chunk)

\* the final text without the line that is still open
TerminalFinal_DropsOpenLine(t) ==
    Join(t.lines, <<"\n">>)

\* the text the terminal stream gives when it ends: the finalized lines,
\* each with its line break, and the current line
TerminalFinal(t) ==
    Join(Append(t.lines, t.cur), <<"\n">>)

\* createTailStream(capacity): a tail buffer that retains nothing yet
createTailStream(capacity) == [capacity |-> capacity, buffer |-> << >>]

\* append that keeps the oldest text and discards the newest excess
TailAppend_KeepsOldest(t, text) ==
    [t EXCEPT !.buffer = SubSeq(t.buffer \o text, 1,
                                IF Len(t.buffer \o text) <= t.capacity
                                THEN Len(t.buffer \o text) ELSE t.capacity)]

\* append(text): the text is appended and the oldest excess is discarded
TailAppend(t, text) ==
    [t EXCEPT !.buffer = SliceLast(t.buffer \o text, t.capacity)]

\* snapshot(): the retained text
TailSnapshot(t) == t.buffer

\* the text a tail stream of that capacity emits for the text written to it
TailStream(capacity, text) ==
    TailSnapshot(TailAppend(createTailStream(capacity), text))

\* the capacity git() gives the tail stream, 256 * 1024
TailCapacity == 262144

\* the slice of the terminal output git() puts in the log message
LogSliceLength == 1024

-----------------------------------------------------------------------------
(* GitError *)

\* GitError that leaves isRawMessage true for the unknown-error message
GitError_UnknownIsRaw(result, args, termOut) ==
    LET choice ==
            IF ~IsNull(result.gitErrorDescription)
                /\ Get(result.gitErrorDescription) # << >>
            THEN [message |-> Get(result.gitErrorDescription), raw |-> FALSE]
            ELSE IF Len(termOut) > 0
            THEN [message |-> termOut, raw |-> TRUE]
            ELSE IF Len(result.stderr) # 0
            THEN [message |-> result.stderr, raw |-> TRUE]
            ELSE IF Len(result.stdout) # 0
            THEN [message |-> result.stdout, raw |-> TRUE]
            ELSE [message |-> <<"Unknown error (exit code ">>
                                 \o NumberToText(result.exitCode) \o <<")">>,
                  raw |-> TRUE]
    IN  [name |-> "GitError", message |-> choice.message, result |-> result,
         args |-> args, isRawMessage |-> choice.raw]

\* GitError with stderr and stdout preferred over the terminal output
GitError_StderrFirst(result, args, termOut) ==
    LET choice ==
            IF ~IsNull(result.gitErrorDescription)
                /\ Get(result.gitErrorDescription) # << >>
            THEN [message |-> Get(result.gitErrorDescription), raw |-> FALSE]
            ELSE IF Len(result.stderr) # 0
            THEN [message |-> result.stderr, raw |-> TRUE]
            ELSE IF Len(result.stdout) # 0
            THEN [message |-> result.stdout, raw |-> TRUE]
            ELSE IF Len(termOut) > 0
            THEN [message |-> termOut, raw |-> TRUE]
            ELSE [message |-> <<"Unknown error (exit code ">>
                                 \o NumberToText(result.exitCode) \o <<")">>,
                  raw |-> FALSE]
    IN  [name |-> "GitError", message |-> choice.message, result |-> result,
         args |-> args, isRawMessage |-> choice.raw]

\* new GitError(result, args, terminalOutput)
GitError(result, args, termOut) ==
    LET choice ==
            IF ~IsNull(result.gitErrorDescription)
                /\ Get(result.gitErrorDescription) # << >>
            THEN [message |-> Get(result.gitErrorDescription), raw |-> FALSE]
            ELSE IF Len(termOut) > 0
            THEN [message |-> termOut, raw |-> TRUE]
            ELSE IF Len(result.stderr) # 0
            THEN [message |-> result.stderr, raw |-> TRUE]
            ELSE IF Len(result.stdout) # 0
            THEN [message |-> result.stdout, raw |-> TRUE]
            ELSE [message |-> <<"Unknown error (exit code ">>
                                 \o NumberToText(result.exitCode) \o <<")">>,
                  raw |-> FALSE]
    IN  [name |-> "GitError", message |-> choice.message, result |-> result,
         args |-> args, isRawMessage |-> choice.raw]

-----------------------------------------------------------------------------
(* Objects and environments *)

\* an object as a function from the keys it has to their values
EmptyObject == [k \in {} |-> Null]

\* { ...a, ...b }
Spread(a, b) ==
    [k \in DOMAIN a \cup DOMAIN b |-> IF k \in DOMAIN b THEN b[k] ELSE a[k]]

\* merge(obj, subset): a copy of obj with the keys of subset assigned
merge(obj, subset) ==
    LET copy == IF IsNull(obj) THEN EmptyObject ELSE Get(obj)
    IN  [k \in DOMAIN copy \cup DOMAIN subset |->
            IF k \in DOMAIN subset THEN subset[k] ELSE copy[k]]

\* an options object from what the caller gives for each key: each of s, e
\* and v is [present |-> the key is there, val |-> its nullable value]
OptionsObject(s, e, v) ==
    [k \in (IF s.present THEN {"successExitCodes"} ELSE {})
            \cup (IF e.present THEN {"expectedErrors"} ELSE {})
            \cup (IF v.present THEN {"env"} ELSE {}) |->
        CASE k = "successExitCodes" -> s.val
          [] k = "expectedErrors" -> e.val
          [] k = "env" -> v.val]

\* options?.key
OptionOf(o, k) == IF k \in DOMAIN o THEN o[k] ELSE Null

defaultOptions ==
    [k \in {"successExitCodes", "expectedErrors", "maxBuffer"} |->
        CASE k = "successExitCodes" -> Some({0})
          [] k = "expectedErrors" -> Some({})
          [] k = "maxBuffer" -> Some("kStringMaxLength")]

-----------------------------------------------------------------------------
(* The inputs of one invocation *)

Calls ==
    {[args |-> <<"push", "origin">>, path |-> "/r", name |-> "push"],
     [args |-> <<"status">>, path |-> "/s", name |-> "getStatus"]}

Absent == [present |-> FALSE, val |-> Null]
Undefined == [present |-> TRUE, val |-> Null]
Given(v) == [present |-> TRUE, val |-> Some(v)]

SuccessExitCodesChoices == {Absent, Undefined, Given({0, 1})}

ExpectedErrorsChoices ==
    {Absent, Undefined,
     Given({"PushNotFastForward", "ConfigLockFileAlreadyExists"})}

\* environments: functions from variable names to values
CallerEnvs ==
    {[k \in {"TERM"} |-> "xterm"],
     [k \in {"GIT_DIR", "GIT_ASKPASS"} |-> "caller"]}

CallerEnvChoices == {Absent} \cup {Given(e) : e \in CallerEnvs}

\* what the trampoline environment provider supplies
ResolverEnvs ==
    {[k \in {"GIT_ASKPASS"} |-> "trampoline"],
     [k \in {"GIT_ASKPASS", "TERM"} |-> "trampoline"]}

ExitCodes == {0, 1, 128}

\* what the process writes in one chunk
OutputAtoms == {"x", "\r", PushRejectedPhrase, ConfigLockPhrase}

\* errors exec() rejects with before the process has produced output
SpawnErrors ==
    {[name |-> "Error", code |-> Some(c), syscall |-> TRUE,
      message |-> <<"spawn git ", c>>, stdout |-> << >>, stderr |-> << >>,
      cause |-> Null] : c \in {"ENOENT", "EACCES"}}

\* errors exec() rejects with while the process runs, given what it has
\* captured so far
RunErrors(out, err) ==
    {[name |-> "ExecError", code |-> Some(c), syscall |-> FALSE,
      message |-> <<"stdout maxBuffer length exceeded">>, stdout |-> out,
      stderr |-> err, cause |-> Null] :
        c \in {"ERR_CHILD_PROCESS_STDIO_MAXBUFFER", "ABORT_ERR"}}
    \cup
    {[name |-> "ExecError", code |-> Some("ERR_CHILD_PROCESS_STDIO_MAXBUFFER"),
      syscall |-> FALSE, message |-> <<"stderr maxBuffer length exceeded">>,
      stdout |-> out, stderr |-> err, cause |-> Some("RangeError")]}

-----------------------------------------------------------------------------
(* git() *)

\* isErrnoException: an Error with a string code and a syscall
isErrnoException(err) ==
    err.name \in {"Error", "ExecError"} /\ ~IsNull(err.code) /\ err.syscall

isMaxBufferExceededError(err) ==
    err.name = "ExecError"
        /\ err.code = Some("ERR_CHILD_PROCESS_STDIO_MAXBUFFER")

\* the catch handler without its errno case
ExecCatch_NoErrnoCase(err, name) ==
    IF isMaxBufferExceededError(err)
    THEN [name |-> "ExecError", message |-> err.message \o <<" for ", name>>,
          stdout |-> err.stdout, stderr |-> err.stderr,
          cause |-> IF IsNull(err.cause) THEN Some(err.name) ELSE err.cause]
    ELSE err

\* the catch handler raising its ExecError without the captured output
ExecCatch_DropsOutput(err, name) ==
    IF isErrnoException(err)
    THEN [name |-> "Error",
          message |-> <<"Failed to execute ", name, ": ", Get(err.code)>>]
    ELSE IF isMaxBufferExceededError(err)
    THEN [name |-> "ExecError", message |-> err.message \o <<" for ", name>>,
          stdout |-> << >>, stderr |-> << >>,
          cause |-> IF IsNull(err.cause) THEN Some(err.name) ELSE err.cause]
    ELSE err

\* the error the catch handler of exec() raises for the error exec()
\* rejected with
ExecCatch(err, name) ==
    IF isErrnoException(err)
    THEN [name |-> "Error",
          message |-> <<"Failed to execute ", name, ": ", Get(err.code)>>]
    ELSE IF isMaxBufferExceededError(err)
    THEN [name |-> "ExecError", message |-> err.message \o <<" for ", name>>,
          stdout |-> err.stdout, stderr |-> err.stderr,
          cause |-> IF IsNull(err.cause) THEN Some(err.name) ELSE err.cause]
    ELSE err

\* the environments merged the other way round, the caller's over the
\* resolver's
TrampolineEnv_CallerWins(callerEnv, env) ==
    LET combinedEnv == merge(Some(env), IF IsNull(callerEnv) THEN EmptyObject
                                        ELSE Get(callerEnv))
    IN  Spread([k \in {"TERM"} |-> "dumb"], combinedEnv)

\* opts.env = { TERM: 'dumb', ...combinedEnv }
TrampolineEnv(callerEnv, env) ==
    LET combinedEnv == merge(callerEnv, env)
    IN  Spread([k \in {"TERM"} |-> "dumb"], combinedEnv)

acceptableExitCode(o, exitCode) ==
    IF ~IsNull(o["successExitCodes"])
    THEN exitCode \in Get(o["successExitCodes"])
    ELSE FALSE

\* the classification with stdout asked before stderr
ClassifyResult_StdoutFirst(result) ==
    LET fromStdout == parseError(result.stdout)
    IN  IF IsNull(fromStdout) THEN parseError(result.stderr) ELSE fromStdout

\* the classification of a result whose exit code is not acceptable
ClassifyResult(result) ==
    LET fromStderr == parseError(result.stderr)
    IN  IF IsNull(fromStderr) THEN parseError(result.stdout) ELSE fromStderr

\* the test of the expected errors negated
acceptableError_Negated(o, gitError) ==
    IF ~IsNull(gitError) /\ ~IsNull(o["expectedErrors"])
    THEN Get(gitError) \notin Get(o["expectedErrors"])
    ELSE TRUE

acceptableError(o, gitError) ==
    IF ~IsNull(gitError) /\ ~IsNull(o["expectedErrors"])
    THEN Get(gitError) \in Get(o["expectedErrors"])
    ELSE TRUE

\* the result object without the path of the call
GitResult_NoPath(o, result, path) ==
    LET gitError ==
            IF acceptableExitCode(o, result.exitCode) THEN Null
            ELSE ClassifyResult(result)
        gitErrorDescription ==
            IF ~IsNull(gitError)
            THEN getDescriptionForError(Get(gitError), result.stderr)
            ELSE Null
    IN  [exitCode |-> result.exitCode, stdout |-> result.stdout,
         stderr |-> result.stderr, gitError |-> gitError,
         gitErrorDescription |-> gitErrorDescription]

\* the result object git() builds from the result of exec()
GitResult(o, result, path) ==
    LET gitError ==
            IF acceptableExitCode(o, result.exitCode) THEN Null
            ELSE ClassifyResult(result)
        gitErrorDescription ==
            IF ~IsNull(gitError)
            THEN getDescriptionForError(Get(gitError), result.stderr)
            ELSE Null
    IN  [exitCode |-> result.exitCode, stdout |-> result.stdout,
         stderr |-> result.stderr, gitError |-> gitError,
         gitErrorDescription |-> gitErrorDescription, path |-> path]

\* git() returns gitResult
ReturnsNormally(o, gitResult) ==
    (~IsNull(gitResult.gitError) /\ acceptableError(o, gitResult.gitError))
        \/ acceptableExitCode(o, gitResult.exitCode)

\* the logged message with the whole terminal output in it
ErrorLogMessage_WholeOutput(args, gitResult, termOut) ==
    LET first == <<"'git ">> \o Join([i \in 1..Len(args) |-> <<args[i]>>],
                                     <<" ">>)
                     \o <<"' exited with an unexpected code: ">>
                     \o NumberToText(gitResult.exitCode) \o <<".">>
        second == IF Len(termOut) > 0 THEN <<termOut>> ELSE << >>
        third == IF ~IsNull(gitResult.gitError)
                 THEN << <<"(The error was parsed as ",
                           Get(gitResult.gitError), ": ">>
                         \o (IF IsNull(gitResult.gitErrorDescription)
                             THEN <<"null">>
                             ELSE Get(gitResult.gitErrorDescription))
                         \o <<")">> >>
                 ELSE << >>
    IN  Join(<<first>> \o second \o third, <<"\n">>)

\* the message git() logs before it raises a GitError (the backquotes of
\* the source are written as quotes)
ErrorLogMessage(args, gitResult, termOut) ==
    LET first == <<"'git ">> \o Join([i \in 1..Len(args) |-> <<args[i]>>],
                                     <<" ">>)
                     \o <<"' exited with an unexpected code: ">>
                     \o NumberToText(gitResult.exitCode) \o <<".">>
        second == IF Len(termOut) > 0
                  THEN <<SliceLast(termOut, LogSliceLength)>> ELSE << >>
        third == IF ~IsNull(gitResult.gitError)
                 THEN << <<"(The error was parsed as ",
                           Get(gitResult.gitError), ": ">>
                         \o (IF IsNull(gitResult.gitErrorDescription)
                             THEN <<"null">>
                             ELSE Get(gitResult.gitErrorDescription))
                         \o <<")">> >>
                 ELSE << >>
    IN  Join(<<first>> \o second \o third, <<"\n">>)

-----------------------------------------------------------------------------
(* parseConfigLockFilePathFromError *)

\* the fixed parts of the line Git prints when the lock file exists
LockPrefix == "error: could not lock config file "
LockSuffix == ": File exists"

\* the characters that end a line for ^, $ and . of a regular expression
LineTerminators == {"\n", "\r"}

\* the expression without its m flag: ^ and $ match at the ends of the text
lockFilePathRe_NoMultiline(text) ==
    IF Len(text) >= 3 /\ text[1] = LockPrefix /\ text[Len(text)] = LockSuffix
        /\ \A k \in 2..(Len(text) - 1) : text[k] \notin LineTerminators
    THEN Some(SubSeq(text, 2, Len(text) - 1))
    ELSE Null

\* lockFilePathRe.exec(text): the first group of the leftmost match, the
\* group being as short as a match allows
lockFilePathRe(text) ==
    LET ends(i) ==
            {j \in (i + 2)..Len(text) :
                /\ text[j] = LockSuffix
                /\ (j = Len(text) \/ text[j + 1] \in LineTerminators)
                /\ \A k \in (i + 1)..(j - 1) : text[k] \notin LineTerminators}
        starts ==
            {i \in 1..Len(text) :
                /\ text[i] = LockPrefix
                /\ (i = 1 \/ text[i - 1] \in LineTerminators)
                /\ ends(i) # {}}
    IN  IF starts = {} THEN Null
        ELSE LET i == CHOOSE x \in starts : \A y \in starts : x <= y
                 j == CHOOSE x \in ends(i) : \A y \in ends(i) : x <= y
             IN  Some(SubSeq(text, i + 1, j - 1))

\* String.prototype.replace(a, b) with a string pattern: the first
\* occurrence only
ReplaceFirst(text, a, b) ==
    LET at == {i \in 1..Len(text) : text[i] = a}
    IN  IF at = {} THEN text
        ELSE [text EXCEPT ![CHOOSE x \in at : \A y \in at : x <= y] = b]

\* the characters that separate the segments of a path
PathSeparators(plat) == IF plat = "win32" THEN {"/", "\\"} ELSE {"/"}

\* a path begins at the root of a drive or of the file system
IsRooted(plat, p) == p # << >> /\ p[1] \in PathSeparators(plat)

\* the drive a Windows path names
HasDrive(p) == p # << >> /\ p[1] \in {"C:", "D:"}

RECURSIVE PathSegments(_, _, _)
\* the segments of a path, the empty ones left out; cur is the segment
\* being read
PathSegments(p, seps, cur) ==
    IF p = << >> THEN (IF cur = << >> THEN << >> ELSE <<cur>>)
    ELSE IF Head(p) \in seps
    THEN (IF cur = << >> THEN << >> ELSE <<cur>>)
             \o PathSegments(Tail(p), seps, << >>)
    ELSE PathSegments(Tail(p), seps, Append(cur, Head(p)))

\* Path.resolve(base, p) for a base that is absolute
PathResolve(plat, base, p) ==
    IF plat = "win32"
    THEN LET drive == IF HasDrive(p) THEN p[1] ELSE base[1]
             rest(q) == IF HasDrive(q) THEN Tail(q) ELSE q
             from == IF IsRooted(plat, rest(p))
                         \/ (HasDrive(p) /\ p[1] # base[1])
                     THEN rest(p)
                     ELSE rest(base) \o <<"\\">> \o rest(p)
         IN  <<drive, "\\">>
                 \o Join(PathSegments(from, PathSeparators(plat), << >>),
                         <<"\\">>)
    ELSE LET from == IF IsRooted(plat, p) THEN p ELSE base \o <<"/">> \o p
         IN  <<"/">> \o Join(PathSegments(from, PathSeparators(plat), << >>),
                             <<"/">>)

\* the local `normalized` of parseConfigLockFilePathFromError, null when
\* the expression does not match
normalizedLockPath(result) ==
    LET match == lockFilePathRe(result.stderr)
    IN  IF IsNull(match) THEN Null
        ELSE IF platform = "win32"
        THEN Some(ReplaceFirst(Get(match), "/", "\\"))
        ELSE match

\* the path of the lock file without the .lock that Git appends
parseConfigLockFilePathFromError_NoSuffix(result) ==
    LET match == lockFilePathRe(result.stderr)
    IN  IF IsNull(match) THEN Null
        ELSE LET normalized ==
                     IF platform = "win32"
                     THEN ReplaceFirst(Get(match), "/", "\\")
                     ELSE Get(match)
             IN  Some(PathResolve(platform, result.path, normalized))

parseConfigLockFilePathFromError(result) ==
    LET match == lockFilePathRe(result.stderr)
    IN  IF IsNull(match) THEN Null
        ELSE LET normalized ==
                     IF platform = "win32"
                     THEN ReplaceFirst(Get(match), "/", "\\")
                     ELSE Get(match)
             IN  Some(PathResolve(platform, result.path,
                                  normalized \o <<".lock">>))

-----------------------------------------------------------------------------
(* The invocation as a state machine *)

\* git() is called: the options are merged over the defaults and
\* withTrampolineEnv is called
GitInit ==
    /\ pc = "Starting"
    /\ call \in Calls
    /\ \E s \in SuccessExitCodesChoices, e \in ExpectedErrorsChoices,
          v \in CallerEnvChoices :
            options = OptionsObject(s, e, v)
    /\ opts = Spread(defaultOptions, options)
    /\ resolverEnv = Null
    /\ spawnEnv = Null
    /\ stdout = << >>
    /\ stderr = << >>
    /\ emitted = 0
    /\ terminal = createTerminalStream
    /\ streamEnded = FALSE
    /\ dataEmitted = FALSE
    /\ terminalOutput = << >>
    /\ execResult = Null
    /\ execError = Null
    /\ returned = Null
    /\ thrown = Null
    /\ usedOutput = Null
    /\ log = << >>
    /\ parseCalls = 0
    /\ describeCalls = 0
    /\ spawns = 0

\* the platforms the application is built for
Platforms == {"darwin", "win32", "linux"}

\* no call of the describer on its own
DescriberIdle == [pc |-> "idle"]

\* no tail stream on its own
TailIdle == [pc |-> "idle"]

\* no terminal stream on its own
NormalizerIdle == [pc |-> "idle"]

\* no call of parseConfigLockFilePathFromError
LockParserIdle == [pc |-> "idle"]

\* no spawn on its own
SpawnerIdle == [pc |-> "idle"]

\* no component of the user interface is mounted
UiIdle ==
    /\ tagDialog = [pc |-> "idle"]
    /\ reRunButton = [pc |-> "idle"]
    /\ discardSelection = [pc |-> "idle"]
    /\ discardStash = [pc |-> "idle"]
    /\ addExisting = [pc |-> "idle"]
    /\ conflictsWarning = [pc |-> "idle"]

Init ==
    /\ GitInit
    /\ UiIdle
    /\ platform \in Platforms
    /\ describer = DescriberIdle
    /\ tail = TailIdle
    /\ normalizer = NormalizerIdle
    /\ lockParser = LockParserIdle
    /\ spawner = SpawnerIdle

\* exec() is called before the resolver has supplied an environment
TrampolineBody_SpawnsUnresolved(env) ==
    /\ pc = "Starting"
    /\ pc' = "Running"
    /\ opts' = Spread(opts,
                      [k \in {"env"} |->
                          Some(TrampolineEnv(OptionOf(opts, "env"),
                                             EmptyObject))])
    /\ spawns' = spawns + 1
    /\ spawnEnv' = Some(TrampolineEnv(OptionOf(opts, "env"), EmptyObject))
    /\ UNCHANGED <<call, options, stdout, stderr, emitted, terminal,
                   streamEnded, dataEmitted, terminalOutput, execResult,
                   execError, resolverEnv,
                   returned, thrown, usedOutput, log, parseCalls,
                   describeCalls>>
    /\ UNCHANGED <<platform, partVars, uiVars>>

\* withTrampolineEnv calls the body with env: the body sets opts.env and
\* calls exec(), which spawns the process and calls opts.processCallback
TrampolineBody(env) ==
    /\ pc = "Starting"
    /\ pc' = "Running"
    /\ resolverEnv' = Some(env)
    /\ opts' = Spread(opts,
                      [k \in {"env"} |->
                          Some(TrampolineEnv(OptionOf(opts, "env"), env))])
    /\ spawns' = spawns + 1
    /\ spawnEnv' = Some(TrampolineEnv(OptionOf(opts, "env"), env))
    /\ UNCHANGED <<call, options, stdout, stderr, emitted, terminal,
                   streamEnded, dataEmitted, terminalOutput, execResult,
                   execError,
                   returned, thrown, usedOutput, log, parseCalls,
                   describeCalls>>
    /\ UNCHANGED <<platform, partVars, uiVars>>

\* the process writes a chunk to stdout: exec() captures it and the pipe
\* writes it to the terminal stream
EmitStdout(a) ==
    /\ pc = "Running"
    /\ emitted < MaxChunks
    /\ stdout' = Append(stdout, a)
    /\ terminal' = TerminalWrite(terminal, <<a>>)
    /\ emitted' = emitted + 1
    /\ UNCHANGED <<pc, call, options, opts, resolverEnv, spawnEnv, stderr,
                   streamEnded, dataEmitted, terminalOutput, execResult,
                   execError,
                   returned, thrown, usedOutput, log, parseCalls,
                   describeCalls, spawns>>
    /\ UNCHANGED <<platform, partVars, uiVars>>

\* the process writes a chunk to stderr
EmitStderr(a) ==
    /\ pc = "Running"
    /\ emitted < MaxChunks
    /\ stderr' = Append(stderr, a)
    /\ terminal' = TerminalWrite(terminal, <<a>>)
    /\ emitted' = emitted + 1
    /\ UNCHANGED <<pc, call, options, opts, resolverEnv, spawnEnv, stdout,
                   streamEnded, dataEmitted, terminalOutput, execResult,
                   execError,
                   returned, thrown, usedOutput, log, parseCalls,
                   describeCalls, spawns>>
    /\ UNCHANGED <<platform, partVars, uiVars>>

\* the process closes with an exit code: exec() resolves with its result
\* and the 'close' listener ends the terminal stream
ProcessClose(exitCode) ==
    /\ pc = "Running"
    /\ pc' = "Resolved"
    /\ execResult' = Some([exitCode |-> exitCode, stdout |-> stdout,
                           stderr |-> stderr])
    /\ streamEnded' = TRUE
    /\ UNCHANGED <<call, options, opts, resolverEnv, spawnEnv, stdout, stderr,
                   emitted, terminal, dataEmitted, terminalOutput, execError,
                   returned,
                   thrown, usedOutput, log, parseCalls, describeCalls, spawns>>
    /\ UNCHANGED <<platform, partVars, uiVars>>

\* the terminal stream, ended, passes its text to the tail stream, whose
\* 'data' event assigns terminalOutput
PipelineData ==
    /\ streamEnded
    /\ ~dataEmitted
    /\ dataEmitted' = TRUE
    /\ terminalOutput' = TailStream(TailCapacity, TerminalFinal(terminal))
    /\ UNCHANGED <<pc, call, options, opts, resolverEnv, spawnEnv, stdout,
                   stderr, emitted, terminal, streamEnded, execResult,
                   execError,
                   returned, thrown, usedOutput, log, parseCalls,
                   describeCalls, spawns>>
    /\ UNCHANGED <<platform, partVars, uiVars>>

\* exec() rejects with err and git() starts over instead of raising
ExecRejects_Retries(err) ==
    /\ pc = "Running"
    /\ spawns < 2
    /\ pc' = "Starting"
    /\ execError' = Some(err)
    /\ UNCHANGED <<call, options, opts, resolverEnv, spawnEnv, stdout, stderr,
                   emitted, terminal, streamEnded, dataEmitted,
                   terminalOutput, execResult, returned, thrown, usedOutput,
                   log, parseCalls, describeCalls, spawns>>
    /\ UNCHANGED <<platform, partVars, uiVars>>

\* exec() rejects with err: the catch handler raises
ExecRejects(err) ==
    /\ pc = "Running"
    /\ pc' = "Done"
    /\ execError' = Some(err)
    /\ thrown' = Some(ExecCatch(err, call.name))
    /\ UNCHANGED <<call, options, opts, resolverEnv, spawnEnv, stdout, stderr,
                   emitted, terminal, streamEnded, dataEmitted,
                   terminalOutput, execResult, returned, usedOutput, log,
                   parseCalls, describeCalls, spawns>>
    /\ UNCHANGED <<platform, partVars, uiVars>>

\* the process could not be started
SpawnFails ==
    /\ emitted = 0
    /\ \E err \in SpawnErrors : ExecRejects(err)

\* exec() fails while the process runs and has produced output
ExecFails ==
    /\ emitted > 0
    /\ \E err \in RunErrors(stdout, stderr) : ExecRejects(err)

\* the number of calls of parseError git() makes for a result
ParseCallsFor(o, result) ==
    IF acceptableExitCode(o, result.exitCode) THEN 0
    ELSE IF IsNull(parseError(result.stderr)) THEN 2 ELSE 1

\* git() continues after `await` and raises its GitError without logging
Complete_NoLog ==
    /\ pc = "Resolved"
    /\ pc' = "Done"
    /\ LET result == Get(execResult)
           gitResult == GitResult(opts, result, call.path)
       IN  /\ parseCalls' = parseCalls + ParseCallsFor(opts, result)
           /\ describeCalls' = describeCalls
                   + (IF IsNull(gitResult.gitError) THEN 0 ELSE 1)
           /\ IF ReturnsNormally(opts, gitResult)
              THEN /\ returned' = Some(gitResult)
                   /\ UNCHANGED <<thrown, usedOutput, log>>
              ELSE /\ thrown' = Some(GitError(gitResult, call.args,
                                              terminalOutput))
                   /\ usedOutput' = Some(terminalOutput)
                   /\ UNCHANGED <<returned, log>>
    /\ UNCHANGED <<call, options, opts, resolverEnv, spawnEnv, stdout, stderr,
                   emitted, terminal, streamEnded, dataEmitted,
                   terminalOutput, execResult, execError, spawns>>
    /\ UNCHANGED <<platform, partVars, uiVars>>

\* git() continues after `await`: it builds the result and returns it, or
\* logs and raises a GitError
Complete ==
    /\ pc = "Resolved"
    /\ pc' = "Done"
    /\ LET result == Get(execResult)
           gitResult == GitResult(opts, result, call.path)
       IN  /\ parseCalls' = parseCalls + ParseCallsFor(opts, result)
           /\ describeCalls' = describeCalls
                   + (IF IsNull(gitResult.gitError) THEN 0 ELSE 1)
           /\ IF ReturnsNormally(opts, gitResult)
              THEN /\ returned' = Some(gitResult)
                   /\ UNCHANGED <<thrown, usedOutput, log>>
              ELSE /\ log' = Append(log, ErrorLogMessage(call.args, gitResult,
                                                         terminalOutput))
                   /\ thrown' = Some(GitError(gitResult, call.args,
                                              terminalOutput))
                   /\ usedOutput' = Some(terminalOutput)
                   /\ UNCHANGED returned
    /\ UNCHANGED <<call, options, opts, resolverEnv, spawnEnv, stdout, stderr,
                   emitted, terminal, streamEnded, dataEmitted,
                   terminalOutput, execResult, execError, spawns>>
    /\ UNCHANGED <<platform, partVars, uiVars>>

Next ==
    \/ \E env \in ResolverEnvs : TrampolineBody(env)
    \/ \E a \in OutputAtoms : EmitStdout(a)
    \/ \E a \in OutputAtoms : EmitStderr(a)
    \/ \E exitCode \in ExitCodes : ProcessClose(exitCode)
    \/ PipelineData
    \/ SpawnFails
    \/ ExecFails
    \/ Complete

Spec == Init /\ [][Next]_vars

-----------------------------------------------------------------------------
(* The parts of git() on their own *)

\* no invocation of git()
GitIdle ==
    /\ pc = "idle"
    /\ call = [args |-> << >>, path |-> "", name |-> ""]
    /\ options = EmptyObject
    /\ opts = defaultOptions
    /\ resolverEnv = Null
    /\ spawnEnv = Null
    /\ stdout = << >>
    /\ stderr = << >>
    /\ emitted = 0
    /\ terminal = createTerminalStream
    /\ streamEnded = FALSE
    /\ dataEmitted = FALSE
    /\ terminalOutput = << >>
    /\ execResult = Null
    /\ execError = Null
    /\ returned = Null
    /\ thrown = Null
    /\ usedOutput = Null
    /\ log = << >>
    /\ parseCalls = 0
    /\ describeCalls = 0
    /\ spawns = 0

\* the texts of at most n atoms
TextsUpTo(atoms, n) == UNION {[1..k -> atoms] : k \in 0..n}

\* the length of the texts given to the describer and to GitError
MaxDescriberText == 1

\* a value that is no member of the error enumeration
OtherErrors == {"NotAnErrorCode"}

\* getDescriptionForError is called with an error and the text of stderr;
\* the other fields are those of the result a GitError is built from
DescriberInit ==
    /\ GitIdle
    /\ UiIdle
    /\ platform \in Platforms
    /\ tail = TailIdle
    /\ normalizer = NormalizerIdle
    /\ lockParser = LockParserIdle
    /\ spawner = SpawnerIdle
    /\ \E error \in DugiteError \cup OtherErrors,
          err \in TextsUpTo({"x", BadConfigPhrase}, MaxDescriberText),
          out \in TextsUpTo({"y"}, MaxDescriberText),
          term \in TextsUpTo({"z"}, MaxDescriberText),
          exitCode \in {1, 128} :
            describer = [pc |-> "called", error |-> error, stderr |-> err,
                         stdout |-> out, terminalOutput |-> term,
                         exitCode |-> exitCode, description |-> Null,
                         raised |-> Null, again |-> Null]

\* getDescriptionForError returns or throws
DescribeError ==
    /\ describer.pc = "called"
    /\ describer' =
           [describer EXCEPT
               !.pc = "described",
               !.description =
                   getDescriptionForError(describer.error, describer.stderr)]
    /\ UNCHANGED <<gitVars, platform, uiVars, tail, normalizer, lockParser,
                   spawner>>

\* a GitError is built for a result with the error and its description
ConstructGitError ==
    /\ describer.pc = "described"
    /\ ~IsThrow(describer.description)
    /\ describer' =
           [describer EXCEPT
               !.pc = "constructed",
               !.raised =
                   Some(GitError([exitCode |-> describer.exitCode,
                                  stdout |-> describer.stdout,
                                  stderr |-> describer.stderr,
                                  gitError |-> Some(describer.error),
                                  gitErrorDescription |->
                                      describer.description,
                                  path |-> "/r"],
                                 <<"push">>, describer.terminalOutput))]
    /\ UNCHANGED <<gitVars, platform, uiVars, tail, normalizer, lockParser,
                   spawner>>

\* getDescriptionForError is called once more with the same error and
\* the same text, before or after the GitError was built
DescribeAgain ==
    /\ describer.pc \in {"described", "constructed"}
    /\ IsNull(describer.again)
    /\ describer' =
           [describer EXCEPT
               !.again = Some(getDescriptionForError(describer.error,
                                                     describer.stderr))]
    /\ UNCHANGED <<gitVars, platform, uiVars, tail, normalizer, lockParser,
                   spawner>>

DescriberNext ==
    \/ DescribeError
    \/ ConstructGitError
    \/ DescribeAgain

SpecDescriber == DescriberInit /\ [][DescriberNext]_vars

\* bounds of the tail stream taken on its own
MaxTailCapacity == 3
MaxTailAppends == 3
MaxTailChunk == 2

\* a tail stream of a small capacity is created
TailInit ==
    /\ GitIdle
    /\ UiIdle
    /\ platform \in Platforms
    /\ describer = DescriberIdle
    /\ normalizer = NormalizerIdle
    /\ lockParser = LockParserIdle
    /\ spawner = SpawnerIdle
    /\ \E capacity \in 1..MaxTailCapacity :
          tail = [pc |-> "open", stream |-> createTailStream(capacity),
                  written |-> << >>, appends |-> 0]

\* text is appended to the tail stream
TailWrite(text) ==
    /\ tail.pc = "open"
    /\ tail.appends < MaxTailAppends
    /\ tail' = [tail EXCEPT !.stream = TailAppend(tail.stream, text),
                            !.written = tail.written \o text,
                            !.appends = tail.appends + 1]
    /\ UNCHANGED <<gitVars, platform, uiVars, describer, normalizer, lockParser,
                   spawner>>

TailNext == \E text \in TextsUpTo({"a", "b"}, MaxTailChunk) : TailWrite(text)

SpecTail == TailInit /\ [][TailNext]_vars

\* bounds of the terminal stream taken on its own
MaxNormalizerInput == 5
MaxNormalizerChunk == 2

NormalizerAtoms == {"A", "B", "C", "D", "\r", "\n"}

\* a terminal stream is created
NormalizerInit ==
    /\ GitIdle
    /\ UiIdle
    /\ platform \in Platforms
    /\ describer = DescriberIdle
    /\ tail = TailIdle
    /\ lockParser = LockParserIdle
    /\ spawner = SpawnerIdle
    /\ normalizer = [pc |-> "open", stream |-> createTerminalStream,
                     input |-> << >>, chunks |-> 0, resumed |-> FALSE,
                     output |-> Null]

\* a chunk is written to the terminal stream; resumed records that some
\* chunk arrived while a "\r" of an earlier chunk was still pending
NormalizerWrite(chunk) ==
    /\ normalizer.pc = "open"
    /\ chunk # << >>
    /\ Len(normalizer.input) + Len(chunk) <= MaxNormalizerInput
    /\ normalizer' =
           [normalizer EXCEPT
               !.stream = TerminalWrite(normalizer.stream, chunk),
               !.input = normalizer.input \o chunk,
               !.chunks = normalizer.chunks + 1,
               !.resumed = normalizer.resumed \/ normalizer.stream.cr]
    /\ UNCHANGED <<gitVars, platform, uiVars, describer, tail, lockParser,
                   spawner>>

\* the terminal stream is ended and gives its final text
NormalizerEnd ==
    /\ normalizer.pc = "open"
    /\ normalizer' =
           [normalizer EXCEPT
               !.pc = "ended",
               !.output = Some(TerminalFinal(normalizer.stream))]
    /\ UNCHANGED <<gitVars, platform, uiVars, describer, tail, lockParser,
                   spawner>>

NormalizerNext ==
    \/ \E chunk \in TextsUpTo(NormalizerAtoms, MaxNormalizerChunk) :
          NormalizerWrite(chunk)
    \/ NormalizerEnd

SpecNormalizer == NormalizerInit /\ [][NormalizerNext]_vars

\* the number of lines of the stderr given to the lock path parser
MaxLockLines == 2

\* lines of stderr: the line of Git with an absolute and with a relative
\* path, with a path that holds the suffix, with no path, with text before
\* and after it, and other lines
LockLines ==
    {<<LockPrefix, "/", "r", "/", ".git", "/", "config", LockSuffix>>,
     <<LockPrefix, ".git", "/", "config", LockSuffix>>,
     <<LockPrefix, "/", "r", LockSuffix, LockSuffix>>,
     <<LockPrefix, LockSuffix>>,
     <<"x", LockPrefix, "/", "r", LockSuffix>>,
     <<LockPrefix, "/", "r", LockSuffix, "x">>,
     <<"x">>,
     << >>}

\* the texts of stderr: lines, their breaks, and a break at the end or not
LockStderrs ==
    {Join(ls, sep) \o trail :
        ls \in TextsUpTo(LockLines, MaxLockLines),
        sep \in {<<"\n">>, <<"\r", "\n">>},
        trail \in {<< >>, <<"\n">>}}

\* the working directory of the command on the platform
LockResultPaths ==
    IF platform = "win32" THEN {<<"C:", "\\", "r">>, <<"D:", "\\", "s">>}
    ELSE {<<"/", "r">>, <<"/", "s">>}

\* parseConfigLockFilePathFromError is called with a result
LockParserInit ==
    /\ GitIdle
    /\ UiIdle
    /\ platform \in Platforms
    /\ describer = DescriberIdle
    /\ tail = TailIdle
    /\ normalizer = NormalizerIdle
    /\ spawner = SpawnerIdle
    /\ \E err \in LockStderrs, path \in LockResultPaths :
          lockParser = [pc |-> "called",
                        result |-> [exitCode |-> 255, stdout |-> << >>,
                                    stderr |-> err,
                                    gitError |->
                                        Some("ConfigLockFileAlreadyExists"),
                                    gitErrorDescription |-> Null,
                                    path |-> path],
                        normalized |-> Null, returned |-> Null]

\* parseConfigLockFilePathFromError returns
ParseLockPath ==
    /\ lockParser.pc = "called"
    /\ lockParser' =
           [lockParser EXCEPT
               !.pc = "returned",
               !.normalized = normalizedLockPath(lockParser.result),
               !.returned =
                   parseConfigLockFilePathFromError(lockParser.result)]
    /\ UNCHANGED <<gitVars, platform, uiVars, describer, tail, normalizer,
                   spawner>>

LockParserNext == ParseLockPath

SpecLockParser == LockParserInit /\ [][LockParserNext]_vars

\* the number of chunks the spawned process emits
MaxSpawnerChunks == 3

\* what the caller gives as options.processCallback
ProcessCallbackChoices == {Absent, Undefined, Given("callerCallback")}

\* the streams and the event of the process the pipeline is attached to
PipelineTaps == {"stdout", "stderr", "close"}

\* git() was called with or without a processCallback, has set
\* opts.processCallback, and exec() is about to spawn
SpawnerInit ==
    /\ GitIdle
    /\ UiIdle
    /\ platform \in Platforms
    /\ describer = DescriberIdle
    /\ tail = TailIdle
    /\ normalizer = NormalizerIdle
    /\ lockParser = LockParserIdle
    /\ \E cb \in ProcessCallbackChoices :
          spawner = [pc |-> "called", callback |-> cb, attached |-> {},
                     callerCalls |-> << >>, written |-> << >>, chunks |-> 0,
                     stream |-> createTerminalStream, ended |-> FALSE,
                     terminalOutput |-> Null]

\* opts.processCallback replaced by the callback of the caller when there
\* is one
SpawnProcess_CallerReplaces ==
    /\ spawner.pc = "called"
    /\ spawner' =
           [spawner EXCEPT
               !.pc = "running",
               !.attached = IF IsNull(spawner.callback.val)
                            THEN PipelineTaps ELSE {},
               !.callerCalls =
                   IF IsNull(spawner.callback.val) THEN << >>
                   ELSE <<[process |-> "live", attached |-> {}]>>]
    /\ UNCHANGED <<gitVars, platform, uiVars, describer, tail, normalizer,
                   lockParser>>

\* exec() spawns the process and calls opts.processCallback with it: the
\* streams are created and piped, the close listener is added, and then
\* the callback of the caller, if any, is called with the process
SpawnProcess ==
    /\ spawner.pc = "called"
    /\ spawner' =
           [spawner EXCEPT
               !.pc = "running",
               !.attached = PipelineTaps,
               !.callerCalls =
                   IF IsNull(spawner.callback.val) THEN << >>
                   ELSE <<[process |-> "live", attached |-> PipelineTaps]>>]
    /\ UNCHANGED <<gitVars, platform, uiVars, describer, tail, normalizer,
                   lockParser>>

\* the process writes a chunk to one of its streams; a stream piped to the
\* terminal stream passes it on
SpawnerEmit(tap, a) ==
    /\ spawner.pc = "running"
    /\ spawner.chunks < MaxSpawnerChunks
    /\ spawner' =
           [spawner EXCEPT
               !.written = Append(spawner.written, a),
               !.chunks = spawner.chunks + 1,
               !.stream = IF tap \in spawner.attached
                          THEN TerminalWrite(spawner.stream, <<a>>)
                          ELSE spawner.stream]
    /\ UNCHANGED <<gitVars, platform, uiVars, describer, tail, normalizer,
                   lockParser>>

\* the process closes; the close listener ends the terminal stream
SpawnerClose ==
    /\ spawner.pc = "running"
    /\ spawner' =
           [spawner EXCEPT
               !.pc = "closed",
               !.ended = "close" \in spawner.attached]
    /\ UNCHANGED <<gitVars, platform, uiVars, describer, tail, normalizer,
                   lockParser>>

\* the ended terminal stream passes its text on and the tail stream emits
\* its data
SpawnerData ==
    /\ spawner.pc = "closed"
    /\ spawner.ended
    /\ spawner' =
           [spawner EXCEPT
               !.pc = "drained",
               !.terminalOutput =
                   Some(TailStream(TailCapacity,
                                   TerminalFinal(spawner.stream)))]
    /\ UNCHANGED <<gitVars, platform, uiVars, describer, tail, normalizer,
                   lockParser>>

SpawnerNext ==
    \/ SpawnProcess
    \/ \E tap \in {"stdout", "stderr"}, a \in {"x", "y", "\r", "\n"} :
          SpawnerEmit(tap, a)
    \/ SpawnerClose
    \/ SpawnerData

SpecSpawner == SpawnerInit /\ [][SpawnerNext]_vars

\* the length of the texts of a result that exec() resolved with
MaxResolvedText == 1

\* what the texts of such a result are made of
ResolvedAtoms == {"x", PushRejectedPhrase, BadConfigPhrase}

\* an output one character longer than what git() leaves of it in the log
LongOutput ==
    [i \in 1..(LogSliceLength + 1) |-> IF i = 1 THEN "a" ELSE "x"]

\* the invocation at the point where exec() has resolved: the process wrote
\* err to stderr and then out to stdout and closed with some exit code
ResolvedInit ==
    /\ pc = "Resolved"
    /\ call \in Calls
    /\ \E s \in SuccessExitCodesChoices, e \in ExpectedErrorsChoices :
            options = OptionsObject(s, e, Absent)
    /\ resolverEnv \in {Some(env) : env \in ResolverEnvs}
    /\ spawnEnv = Some(TrampolineEnv(Null, Get(resolverEnv)))
    /\ opts = Spread(Spread(defaultOptions, options),
                     [k \in {"env"} |-> spawnEnv])
    /\ stdout \in TextsUpTo(ResolvedAtoms, MaxResolvedText) \cup {LongOutput}
    /\ stderr \in TextsUpTo(ResolvedAtoms, MaxResolvedText)
    /\ emitted = Len(stderr) + Len(stdout)
    /\ terminal = TerminalWriteAtoms(createTerminalStream, stderr \o stdout)
    /\ streamEnded = TRUE
    /\ dataEmitted = FALSE
    /\ terminalOutput = << >>
    /\ \E exitCode \in ExitCodes :
          execResult = Some([exitCode |-> exitCode, stdout |-> stdout,
                             stderr |-> stderr])
    /\ execError = Null
    /\ returned = Null
    /\ thrown = Null
    /\ usedOutput = Null
    /\ log = << >>
    /\ parseCalls = 0
    /\ describeCalls = 0
    /\ spawns = 1
    /\ platform \in Platforms
    /\ describer = DescriberIdle
    /\ tail = TailIdle
    /\ normalizer = NormalizerIdle
    /\ lockParser = LockParserIdle
    /\ spawner = SpawnerIdle
    /\ UiIdle

ResolvedNext ==
    \/ PipelineData
    \/ Complete

SpecResolved == ResolvedInit /\ [][ResolvedNext]_vars

-----------------------------------------------------------------------------
(* The terms of the properties *)

\* the success exit codes as documented: the caller's set, {0} if undefined
SuccessSet ==
    IF IsNull(OptionOf(options, "successExitCodes")) THEN {0}
    ELSE Get(options["successExitCodes"])

\* the expected errors as documented: the caller's set, empty if undefined
ExpectedSet ==
    IF IsNull(OptionOf(options, "expectedErrors")) THEN {}
    ELSE Get(options["expectedErrors"])

\* exec() resolved and git() has finished
Completed == pc = "Done" /\ ~IsNull(execResult)

ExitCode == Get(execResult).exitCode

\* what the classifier yields for the output of the run (stderr, then stdout)
ClassifiedCode == ClassifyResult(Get(execResult))

Raised(name) == ~IsNull(thrown) /\ Get(thrown).name = name

ReturnedNormally == ~IsNull(returned) /\ IsNull(thrown)

\* the text the process has written, as the terminal and tail streams give it
DrainedOutput == TailStream(TailCapacity, TerminalFinal(terminal))

-----------------------------------------------------------------------------
(* Properties of git() *)

\* C1: a completed run returns its result normally if and only if the exit
\* code is in the success set or a classified code exists and is in the
\* expected-error set; every other completed run raises a GitError and
\* returns nothing.
C1_ReturnsIffAcceptable ==
    Completed =>
        IF ExitCode \in SuccessSet
            \/ (~IsNull(ClassifiedCode) /\ Get(ClassifiedCode) \in ExpectedSet)
        THEN ReturnedNormally
        ELSE IsNull(returned) /\ Raised("GitError")

\* C2: for every exit code in the success set, whatever the output, git()
\* does not raise and returns a result with gitError and
\* gitErrorDescription null.
C2_SuccessNeverRaises ==
    (Completed /\ ExitCode \in SuccessSet) =>
        /\ ReturnedNormally
        /\ IsNull(Get(returned).gitError)
        /\ IsNull(Get(returned).gitErrorDescription)

\* C3: when the exit code is outside the success set and the classified code
\* is not in the expected-error set, git() raises a GitError whose result
\* carries that code; when the description of the code is non-null it is the
\* message and isRawMessage is false.
C3_UnexpectedClassifiedRaises ==
    (Completed /\ ExitCode \notin SuccessSet /\ ~IsNull(ClassifiedCode)
        /\ Get(ClassifiedCode) \notin ExpectedSet) =>
        /\ Raised("GitError")
        /\ IsNull(returned)
        /\ Get(thrown).result.gitError = ClassifiedCode
        /\ LET description == getDescriptionForError(Get(ClassifiedCode),
                                                     Get(execResult).stderr)
           IN  ~IsNull(description) =>
                   /\ Get(thrown).message = Get(description)
                   /\ ~Get(thrown).isRawMessage

\* the case of C4: a non-success exit code with a classified code that the
\* caller expects
ExpectedFailure ==
    /\ Completed
    /\ ExitCode \notin SuccessSet
    /\ ~IsNull(ClassifiedCode)
    /\ Get(ClassifiedCode) \in ExpectedSet

\* C4 as stated: in that case git() returns normally a result whose error
\* code and error description are both populated.
C4_ExpectedErrorPopulated ==
    ExpectedFailure =>
        /\ ReturnedNormally
        /\ Get(returned).gitError = ClassifiedCode
        /\ ~IsNull(Get(returned).gitErrorDescription)

\* C4 as amended: in that case git() returns normally a result whose
\* gitError is the classified code and whose gitErrorDescription is what the
\* describer gives for that code and stderr, which is null for the codes the
\* describer maps to null.
C4_ExpectedErrorReturned ==
    ExpectedFailure =>
        /\ ReturnedNormally
        /\ Get(returned).gitError = ClassifiedCode
        /\ Get(returned).gitErrorDescription =
               getDescriptionForError(Get(ClassifiedCode),
                                      Get(execResult).stderr)
        /\ (Get(ClassifiedCode) \in NullDescribedErrors
                <=> IsNull(Get(returned).gitErrorDescription))

C4_Witness ==
    /\ ExpectedFailure
    /\ ReturnedNormally
    /\ Get(returned).gitError = Some("PushNotFastForward")
    /\ ~IsNull(Get(returned).gitErrorDescription)

\* the case of C5: a non-success exit code and output no pattern matches
UnclassifiedFailure ==
    /\ Completed
    /\ ExitCode \notin SuccessSet
    /\ IsNull(ClassifiedCode)

UnknownErrorMessage(exitCode) ==
    <<"Unknown error (exit code ">> \o NumberToText(exitCode) \o <<")">>

SpawnLevelFailure ==
    ~IsNull(execError) /\ isErrnoException(Get(execError))

\* C6: when exec() fails at the spawn level, git() raises a plain Error
\* whose message is 'Failed to execute <name>: <code>', which is not a
\* GitError, and neither the classifier nor the describer has run.
C6_SpawnFailureIsPlainError ==
    SpawnLevelFailure =>
        /\ thrown = Some([name |-> "Error",
                          message |-> <<"Failed to execute ", call.name, ": ",
                                        Get(Get(execError).code)>>])
        /\ ~Raised("GitError")
        /\ IsNull(returned)
        /\ parseCalls = 0
        /\ describeCalls = 0

C6_Witness ==
    /\ SpawnLevelFailure
    /\ Raised("Error")
    /\ call.name = "getStatus"
    /\ Get(execError).code = Some("EACCES")

\* the case of C7: exec() rejected because the output exceeded maxBuffer
MaxBufferFailure ==
    /\ ~IsNull(execError)
    /\ Get(execError).name = "ExecError"
    /\ Get(execError).code = Some("ERR_CHILD_PROCESS_STDIO_MAXBUFFER")

\* C7: when the output exceeds the maximum buffer size, git() raises an
\* ExecError, not a GitError, whose stdout and stderr are the partial output
\* of the original error and whose message is the original message followed
\* by ' for <name>'; the classifier and the describer have not run.
C7_MaxBufferIsExecError ==
    MaxBufferFailure =>
        /\ Raised("ExecError")
        /\ IsNull(returned)
        /\ Get(thrown).stdout = Get(execError).stdout
        /\ Get(thrown).stderr = Get(execError).stderr
        /\ Get(thrown).stdout = stdout
        /\ Get(thrown).stderr = stderr
        /\ Get(thrown).message =
               Get(execError).message \o <<" for ", call.name>>
        /\ parseCalls = 0
        /\ describeCalls = 0

\* the partial output holds a phrase of the error table and is not classified
C7_Witness ==
    /\ MaxBufferFailure
    /\ Raised("ExecError")
    /\ ~IsNull(parseError(Get(thrown).stderr))
    /\ Get(thrown).stdout # << >>

\* C8: when git() builds the log message and the GitError, everything the
\* process has written has gone through the terminal stream and the tail
\* stream into terminalOutput.
C8_OutputDrainedBeforeFailure ==
    ~IsNull(usedOutput) => Get(usedOutput) = DrainedOutput

\* C9: the environment passed to the subprocess has TERM set to 'dumb'.
C9_TermIsDumb ==
    ~IsNull(spawnEnv) =>
        /\ "TERM" \in DOMAIN Get(spawnEnv)
        /\ Get(spawnEnv)["TERM"] = "dumb"

\* the fields of a result of git()
ResultFields ==
    {"exitCode", "stdout", "stderr", "path", "gitError",
     "gitErrorDescription"}

BuiltResults ==
    (IF IsNull(returned) THEN {} ELSE {Get(returned)})
        \cup (IF Raised("GitError") THEN {Get(thrown).result} ELSE {})

\* C11: in every result git() builds, gitErrorDescription is non-null only
\* if gitError is non-null, and gitError is non-null only if the exit code
\* is not in the success set; the result of a GitError has an exit code
\* outside the success set.
C11_ErrorFieldsOnlyOnFailure ==
    /\ \A r \in BuiltResults :
          /\ ~IsNull(r.gitErrorDescription) => ~IsNull(r.gitError)
          /\ ~IsNull(r.gitError) => r.exitCode \notin SuccessSet
    /\ Raised("GitError") => Get(thrown).result.exitCode \notin SuccessSet

\* C12 as stated: whatever failure git() raises, one diagnostic has been
\* logged; on a normal return nothing has been logged.
C12_EveryFailureLoggedOnce ==
    /\ ~IsNull(thrown) => Len(log) = 1
    /\ ~IsNull(returned) => Len(log) = 0

\* C12 as amended: git() logs exactly one diagnostic, naming the command
\* and its exit code, for every GitError it raises (an unexpected classified
\* failure or an unclassified failure), in the step that detects the failure
\* and not after anything was raised; it logs nothing for a buffer overflow,
\* a spawn-level failure or any other error of exec(), and nothing on a
\* normal return.
C12_GitErrorLoggedOnce ==
    /\ [](Len(log) = IF Raised("GitError") THEN 1 ELSE 0)
    /\ [](Raised("GitError") =>
              /\ Contains(log[1], call.args[1])
              /\ SubSeq(log[1], Len(call.args) * 2 + 2,
                        Len(call.args) * 2 + 1
                            + Len(NumberToText(ExitCode)))
                     = NumberToText(ExitCode))
    /\ [][Len(log') > Len(log) => (IsNull(thrown) /\ Raised("GitError")')]_vars

\* a spawn-level failure and an unexpected classified failure
C12_Witness ==
    \/ /\ SpawnLevelFailure
       /\ Raised("Error")
       /\ log = << >>
    \/ /\ Raised("GitError")
       /\ ~IsNull(Get(thrown).result.gitError)
       /\ Len(log) = 1

\* the terminal outcomes of an invocation
CompletedSuccess == ~IsNull(returned)
CompletedFailure == Raised("GitError")
Crashed == ~IsNull(thrown) /\ ~Raised("GitError")

\* C13: an invocation calls exec() at most once; when it has ended, exactly
\* one of the outcomes Completed(success), Completed(failure) and Crashed
\* holds, and an outcome, once there, is followed by no other and by no
\* further spawn.
C13_OneSpawnOneOutcome ==
    /\ [](spawns <= 1)
    /\ [](~(CompletedSuccess /\ ~IsNull(thrown)))
    /\ [](pc = "Done" <=> (CompletedSuccess \/ CompletedFailure \/ Crashed))
    /\ [][(CompletedSuccess \/ CompletedFailure \/ Crashed) =>
             (returned' = returned /\ thrown' = thrown /\ spawns' = spawns
                  /\ pc' = pc)]_vars

\* an invocation that crashed after it had spawned its process once
C13_Witness ==
    /\ Crashed
    /\ spawns = 1
    /\ pc = "Done"

-----------------------------------------------------------------------------
(* Properties of the describer and of GitError *)

\* the describer has returned or thrown
Described == describer.pc \in {"described", "constructed"}

\* C18: for every member of the error enumeration getDescriptionForError
\* returns a string or null and does not reach its default branch; for any
\* other value it reaches assertNever, which throws, and returns neither a
\* string nor null.
C18_DescriberIsExhaustive ==
    Described =>
        IF describer.error \in DugiteError
        THEN \/ IsNull(describer.description)
             \/ /\ Len(describer.description) = 1
                /\ Get(describer.description) # << >>
        ELSE /\ IsThrow(describer.description)
             /\ describer.pc # "constructed"

\* a value outside the enumeration has reached assertNever
C18_Witness ==
    /\ Described
    /\ describer.error \notin DugiteError
    /\ IsThrow(describer.description)

\* C19: for the three authentication-failure codes and any stderr text the
\* describer returns the one consolidated message, and isAuthFailureError
\* is true for exactly those three codes.
C19_AuthFailuresShareMessage ==
    Described =>
        /\ isAuthFailureError(describer.error)
               <=> describer.error \in {"SSHAuthenticationFailed",
                                        "SSHPermissionDenied",
                                        "HTTPSAuthenticationFailed"}
        /\ describer.error \in {"SSHAuthenticationFailed",
                                "SSHPermissionDenied",
                                "HTTPSAuthenticationFailed"}
               => describer.description =
                      Some(<<"description", "AuthFailure",
                             IF platform = "darwin"
                             THEN "GitHub Desktop > Settings"
                             ELSE "File > Settings">>)

\* the HTTPS code described with a stderr that has text
C19_Witness ==
    /\ Described
    /\ describer.error = "HTTPSAuthenticationFailed"
    /\ describer.stderr # << >>
    /\ ~IsNull(describer.description)

\* C20: a GitError built for a result with a code the describer maps to
\* null has no description; its message is the captured output (terminal
\* output, else stderr, else stdout) and isRawMessage is true whenever any
\* of the three is non-empty.
C20_NullDescriptionShowsRawOutput ==
    (describer.pc = "constructed"
        /\ describer.error \in
               {"ConfigLockFileAlreadyExists", "RemoteAlreadyExists",
                "MergeWithLocalChanges", "RebaseWithLocalChanges",
                "GPGFailedToSignData", "ConflictModifyDeletedInBranch",
                "MergeCommitNoMainlineOption", "UnsafeDirectory",
                "PathExistsButNotInRef"}) =>
        LET e == Get(describer.raised)
            captured == describer.terminalOutput \o describer.stderr
                            \o describer.stdout
        IN  /\ IsNull(e.result.gitErrorDescription)
            /\ captured # << >> =>
                   /\ e.isRawMessage
                   /\ e.message =
                          IF describer.terminalOutput # << >>
                          THEN describer.terminalOutput
                          ELSE IF describer.stderr # << >>
                          THEN describer.stderr
                          ELSE describer.stdout
            /\ captured = << >> =>
                   /\ ~e.isRawMessage
                   /\ e.message = UnknownErrorMessage(describer.exitCode)

\* an UnsafeDirectory error whose message is the text of stderr
C20_Witness ==
    /\ describer.pc = "constructed"
    /\ describer.error = "UnsafeDirectory"
    /\ describer.stderr # << >>
    /\ Get(describer.raised).message = describer.stderr
    /\ Get(describer.raised).isRawMessage

\* ---- the tail stream on its own ------------------------------------------

\* C14: after any sequence of appends of total length M the tail stream of
\* capacity K retains exactly the last min(K, M) atoms of everything that
\* was appended, so never more than K; git() creates it with K = 256 KiB
C14_TailRetainsLastK ==
    tail.pc = "open" =>
        LET K == tail.stream.capacity
            M == Len(tail.written)
            kept == TailSnapshot(tail.stream)
        IN  /\ Len(kept) = (IF M < K THEN M ELSE K)
            /\ kept = SubSeq(tail.written, M - Len(kept) + 1, M)
            /\ Len(kept) <= K
            /\ TailCapacity = 256 * 1024

\* several appends have exceeded the capacity and older text was discarded
C14_Witness ==
    /\ tail.pc = "open"
    /\ tail.appends >= 2
    /\ Len(tail.written) > tail.stream.capacity
    /\ Len(TailSnapshot(tail.stream)) = tail.stream.capacity
    /\ TailSnapshot(tail.stream) =
           SliceLast(tail.written, tail.stream.capacity)

\* ---- the terminal stream on its own --------------------------------------

\* no carriage return and no line break in the text
NoControl(text) == \A i \in 1..Len(text) : text[i] \notin {"\r", "\n"}

\* no carriage return in the text
NoCarriageReturn(text) == \A i \in 1..Len(text) : text[i] # "\r"

\* the part of the text after its last line break
OpenSegment(text) ==
    LET breaks == {i \in 1..Len(text) : text[i] = "\n"}
        last == IF breaks = {} THEN 0
                ELSE CHOOSE i \in breaks : \A j \in breaks : j <= i
    IN  SubSeq(text, last + 1, Len(text))

\* line p after q was written over it from its first column
Overwritten(p, q) == q \o SubSeq(p, Len(q) + 1, Len(p))

\* the text without its last atom
Front(text) == SubSeq(text, 1, Len(text) - 1)

\* the stream state is that of the whole input written atom by atom,
\* however it was cut into chunks, and text after a "\r" lies over the line
CarriageReturnOverwrites ==
    normalizer.pc \in {"open", "ended"} =>
        /\ normalizer.stream =
               TerminalWriteAtoms(createTerminalStream, normalizer.input)
        /\ LET seg == OpenSegment(normalizer.input)
           IN  \A i \in 1..Len(seg) :
                   LET p == SubSeq(seg, 1, i - 1)
                       q == SubSeq(seg, i + 1, Len(seg))
                   IN  (seg[i] = "\r" /\ q # << >> /\ NoControl(p)
                                      /\ NoControl(q))
                           => normalizer.stream.cur = Overwritten(p, q)
        /\ (normalizer.pc = "ended"
               /\ normalizer.input = <<"A", "\r", "B", "C">>)
               => normalizer.output = Some(<<"B", "C">>)

\* a step leaves the lines finalized before it as they were
FinalizedLinesKept ==
    (normalizer.pc \in {"open", "ended"}) =>
        /\ Len(normalizer'.stream.lines) >= Len(normalizer.stream.lines)
        /\ SubSeq(normalizer'.stream.lines, 1, Len(normalizer.stream.lines))
               = normalizer.stream.lines

\* C15: a "\r" not followed at once by "\n" resets the current line, so the
\* atoms after it overwrite the line instead of being appended ("A\rBC"
\* finalizes to "BC"); the lines finalized before stay unchanged; and this
\* holds for every cut of the input into chunks, one between the "\r" and
\* the next atom included
C15_CarriageReturnOverwritesLine ==
    /\ []CarriageReturnOverwrites
    /\ [][FinalizedLinesKept]_vars

\* "A\r" and "BC" arrived in separate chunks and the stream gave "BC"
C15_Witness ==
    /\ normalizer.pc = "ended"
    /\ normalizer.input = <<"A", "\r", "B", "C">>
    /\ normalizer.resumed
    /\ normalizer.output = Some(<<"B", "C">>)

\* C16: for every input without "\r", cut into chunks in any way, the final
\* text is the concatenated input ("AB\nCD" gives the lines "AB" and "CD")
C16_NoCarriageReturnRoundTrip ==
    (normalizer.pc = "ended" /\ NoCarriageReturn(normalizer.input)) =>
        /\ normalizer.output = Some(normalizer.input)
        /\ normalizer.input = <<"A", "B", "\n", "C", "D">>
               => Append(normalizer.stream.lines, normalizer.stream.cur)
                      = << <<"A", "B">>, <<"C", "D">> >>

\* "AB\nCD" arrived in several chunks and came out unchanged
C16_Witness ==
    /\ normalizer.pc = "ended"
    /\ normalizer.input = <<"A", "B", "\n", "C", "D">>
    /\ normalizer.chunks >= 2
    /\ normalizer.output = Some(<<"A", "B", "\n", "C", "D">>)

\* C17: when the last atom received before the end is a lone "\r", the
\* current line is not erased and the final text is that of the input
\* without the "\r"; an empty input gives an empty final text
C17_TrailingCarriageReturnKeepsLine ==
    normalizer.pc = "ended" =>
        /\ (normalizer.input # << >>
               /\ normalizer.input[Len(normalizer.input)] = "\r")
               => /\ normalizer.output =
                         Some(TerminalFinal(TerminalWriteAtoms(
                                  createTerminalStream,
                                  Front(normalizer.input))))
                  /\ NoControl(Front(normalizer.input))
                         => normalizer.output = Some(Front(normalizer.input))
        /\ normalizer.input = << >> => normalizer.output = Some(<< >>)

\* the stream ended right after "AB\r" and gave "AB"
C17_Witness ==
    /\ normalizer.pc = "ended"
    /\ normalizer.input = <<"A", "B", "\r">>
    /\ normalizer.output = Some(<<"A", "B">>)

\* ---- the lock path parser ------------------------------------------------

RECURSIVE LinesOf(_, _)
\* the lines of a text; cur is the line being read
LinesOf(text, cur) ==
    IF text = << >> THEN <<cur>>
    ELSE IF Head(text) \in LineTerminators
    THEN <<cur>> \o LinesOf(Tail(text), << >>)
    ELSE LinesOf(Tail(text), Append(cur, Head(text)))

\* the line is 'error: could not lock config file <P>: File exists'
HasLockForm(line) ==
    Len(line) >= 3 /\ line[1] = LockPrefix /\ line[Len(line)] = LockSuffix

\* <P> of such a line
LockFormPath(line) == SubSeq(line, 2, Len(line) - 1)

\* C21: for a stderr with a line 'error: could not lock config file <P>:
\* File exists' the parser returns <P> with .lock appended, resolved against
\* result.path (for the stderr of the example and the path /r that is
\* /r/.git/config.lock); it returns null when no line has that form
C21_LockPathExtracted ==
    lockParser.pc = "returned" =>
        LET lines == LinesOf(lockParser.result.stderr, << >>)
            found == {i \in 1..Len(lines) : HasLockForm(lines[i])}
        IN  /\ found = {} => lockParser.returned = Null
            /\ found # {} =>
                  LET first == CHOOSE i \in found : \A j \in found : i <= j
                  IN  lockParser.returned =
                          Some(PathResolve(platform, lockParser.result.path,
                                           LockFormPath(lines[first])
                                               \o <<".lock">>))
            /\ (platform # "win32"
                  /\ lockParser.result.path = <<"/", "r">>
                  /\ lockParser.result.stderr =
                         <<LockPrefix, "/", "r", "/", ".git", "/", "config",
                           LockSuffix>>)
                  => lockParser.returned =
                         Some(<<"/", "r", "/", ".git", "/", "config",
                                ".lock">>)

\* the line of Git came second in stderr, with a relative path
C21_Witness ==
    /\ lockParser.pc = "returned"
    /\ lockParser.result.path = <<"/", "r">>
    /\ lockParser.result.stderr =
           <<"x", "\n", LockPrefix, ".git", "/", "config", LockSuffix>>
    /\ lockParser.returned =
           Some(<<"/", "r", "/", ".git", "/", "config", ".lock">>)

\* ---- the defaults of the options -----------------------------------------

\* the caller left the option undefined: the key is missing or its value is
\* undefined
LeftUndefined(key) == IsNull(OptionOf(options, key))

\* C22: when the caller leaves successExitCodes undefined, by omitting it or
\* by giving it the value undefined, exit code 0 is a success (normal return
\* with null error fields) and every other exit code is not
C22_SuccessDefaultsToZero ==
    (Completed /\ LeftUndefined("successExitCodes")) =>
        IF ExitCode = 0
        THEN /\ ReturnedNormally
             /\ IsNull(Get(returned).gitError)
             /\ IsNull(Get(returned).gitErrorDescription)
        ELSE \/ Raised("GitError")
             \/ ReturnedNormally /\ ~IsNull(Get(returned).gitError)

\* C23: when the caller leaves expectedErrors undefined, by omitting it or
\* by giving it the value undefined, every run whose exit code is outside
\* the success set raises a GitError, classified or not
C23_ExpectedDefaultsToEmpty ==
    (Completed /\ LeftUndefined("expectedErrors")
        /\ ExitCode \notin SuccessSet) =>
        /\ Raised("GitError")
        /\ IsNull(returned)

\* ---- the describer called twice ------------------------------------------

ExecCalled ==
    \/ spawns > 0
    \/ pc \in {"Running", "Resolved", "Done"}
    \/ ~IsNull(spawnEnv)
    \/ emitted > 0
    \/ ~IsNull(execResult)
    \/ ~IsNull(execError)

\* C25: within one invocation exec() is never called before the resolver
\* has supplied its environment, and as long as the resolver has supplied
\* none no process is spawned
C25_ResolutionBeforeSpawn ==
    /\ ExecCalled => ~IsNull(resolverEnv)
    /\ IsNull(resolverEnv) =>
          /\ pc = "Starting"
          /\ spawns = 0
          /\ IsNull(returned) /\ IsNull(thrown)

\* the process runs and the resolver had supplied its environment
C25_Witness ==
    /\ pc = "Running"
    /\ spawns = 1
    /\ emitted > 0
    /\ ~IsNull(resolverEnv)
    /\ "GIT_ASKPASS" \in DOMAIN Get(resolverEnv)

\* ---- the process callback ------------------------------------------------

\* C26: a processCallback of the caller is called exactly once per spawned
\* process, with the live process, after the pipeline was attached to
\* stdout, stderr and the close event; the pipeline is attached in the same
\* way with and without such a callback, so that the terminal output is
\* captured in both cases
C26_CallbackAfterPipeline ==
    /\ spawner.pc = "called" => spawner.callerCalls = << >>
    /\ spawner.pc \in {"running", "closed", "drained"} =>
          /\ spawner.attached = PipelineTaps
          /\ IF IsNull(spawner.callback.val)
             THEN spawner.callerCalls = << >>
             ELSE /\ Len(spawner.callerCalls) = 1
                  /\ spawner.callerCalls[1].process = "live"
                  /\ spawner.callerCalls[1].attached = PipelineTaps
          /\ spawner.stream =
                 TerminalWriteAtoms(createTerminalStream, spawner.written)
    /\ spawner.pc = "closed" => spawner.ended
    /\ spawner.pc = "drained" =>
          spawner.terminalOutput =
              Some(TerminalFinal(TerminalWriteAtoms(createTerminalStream,
                                                    spawner.written)))

\* the caller gave a callback, it was called once, and the output of the
\* process was captured
C26_Witness ==
    /\ spawner.pc = "drained"
    /\ ~IsNull(spawner.callback.val)
    /\ Len(spawner.callerCalls) = 1
    /\ spawner.written = <<"x", "\r", "y">>
    /\ spawner.terminalOutput = Some(<<"y">>)

\* ---- classification and description --------------------------------------

\* C27: on a non-success exit code the classifier is asked about stderr
\* first and about stdout only when stderr gives null, so that a code found
\* in stderr wins; the description is that of the classified code and the
\* text of stderr, also when the code was found in stdout
C27_StderrClassifiedFirst ==
    (Completed /\ ExitCode \notin SuccessSet) =>
        LET err == Get(execResult).stderr
            out == Get(execResult).stdout
        IN  /\ parseCalls = (IF IsNull(parseError(err)) THEN 2 ELSE 1)
            /\ \A r \in BuiltResults :
                  /\ r.gitError = (IF IsNull(parseError(err))
                                   THEN parseError(out) ELSE parseError(err))
                  /\ r.gitErrorDescription =
                         (IF IsNull(r.gitError) THEN Null
                          ELSE getDescriptionForError(Get(r.gitError), err))
            /\ BuiltResults # {}

\* stderr and stdout were classified differently and the code of stderr
\* is the one of the result
C27_Witness ==
    /\ Completed
    /\ Get(execResult).stderr = <<PushRejectedPhrase>>
    /\ Get(execResult).stdout = <<BadConfigPhrase>>
    /\ Raised("GitError")
    /\ Get(thrown).result.gitError = Some("PushNotFastForward")
    /\ parseCalls = 1

\* ---- the message of a GitError -------------------------------------------

\* the sources of the message in their order: the description (empty when
\* there is none), the terminal output, stderr, stdout
MessageSources ==
    <<IF IsNull(describer.description) THEN << >>
      ELSE Get(describer.description),
      describer.terminalOutput, describer.stderr, describer.stdout>>

Holds(message, text) ==
    \E i \in 0..(Len(message) - Len(text)) :
        SubSeq(message, i + 1, i + Len(text)) = text

\* the trailing 1024 characters of the terminal output git() read
TrailingKiB ==
    LET used == Get(usedOutput)
    IN  IF Len(used) <= 1024 THEN used
        ELSE SubSeq(used, Len(used) - 1023, Len(used))

\* the logged message carries the trailing 1024 characters of the terminal
\* output and, of a longer output, nothing more
LogCarriesTrailingKiB ==
    /\ Len(log) = 1
    /\ Holds(log[1], TrailingKiB)
    /\ Len(Get(usedOutput)) > 1024 =>
          /\ ~Holds(log[1], Get(usedOutput))
          /\ Len(log[1]) <= 1024 + 32

\* C29 as stated: every message git() produces when it fails, the logged
\* one and the one of the GitError, carries at most the trailing 1024
\* characters of the terminal output
C29_MessagesCarryTrailingKiB ==
    Raised("GitError") =>
        /\ LogCarriesTrailingKiB
        /\ (Get(thrown).isRawMessage /\ Get(usedOutput) # << >>) =>
              /\ Len(Get(thrown).message) <= 1024
              /\ Get(thrown).message = TrailingKiB

\* C29 amended: the logged message carries at most the trailing 1024
\* characters of the terminal output; the message of the GitError, when it
\* is the terminal output, is all of it
C29_LogCarriesTrailingKiB ==
    Raised("GitError") =>
        /\ LogCarriesTrailingKiB
        /\ (Get(thrown).isRawMessage /\ Get(usedOutput) # << >>) =>
              Get(thrown).message = Get(usedOutput)

\* the terminal output was longer than 1024 characters: the log has its
\* tail, the GitError all of it
C29_Witness ==
    /\ Raised("GitError")
    /\ Len(Get(usedOutput)) > 1024
    /\ Len(log) = 1
    /\ Holds(log[1], TrailingKiB)
    /\ Get(thrown).isRawMessage
    /\ Len(Get(thrown).message) > 1024

\* ---- the environment of the process --------------------------------------

\* the env of the caller's options, empty when there is none
CallerEnv ==
    IF IsNull(OptionOf(options, "env")) THEN EmptyObject
    ELSE Get(options["env"])

ReplaceAll(text, a, b) ==
    [i \in 1..Len(text) |-> IF text[i] = a THEN b ELSE text[i]]

\* C31: on Windows every forward slash of the path Git printed is replaced
\* by a backslash before .lock is appended and the path resolved, however
\* many forward slashes the path has
C31_EverySlashReplaced ==
    (lockParser.pc = "returned" /\ platform = "win32"
        /\ ~IsNull(lockParser.normalized)) =>
        /\ ~Contains(Get(lockParser.normalized), "/")
        /\ Get(lockParser.normalized) =
               ReplaceAll(Get(lockFilePathRe(lockParser.result.stderr)),
                          "/", "\\")

(***************************************************************************)
(* The components of the user interface.  Each is a React component: its   *)
(* props are fixed when it is mounted, its state changes by setState, and  *)
(* an async handler runs to its first await, the rest running when the     *)
(* awaited promise settles.  A promise of the dispatcher is settled by the *)
(* application, outside the component: it is fulfilled or rejected.        *)
(***************************************************************************)

\* git() and its parts are not running
PartsIdle ==
    /\ GitIdle
    /\ platform \in Platforms
    /\ describer = DescriberIdle
    /\ tail = TailIdle
    /\ normalizer = NormalizerIdle
    /\ lockParser = LockParserIdle
    /\ spawner = SpawnerIdle

\* how a promise of the dispatcher settles
Settlements == {"fulfilled", "rejected"}

(***************************************************************************)
(* CreateTag                                                               *)
(***************************************************************************)

MaxTagNameLength == 245

\* the number of short tag names the user types or the repository has
MaxTagNames == 2

\* the number of times the form is submitted
MaxTagSubmits == 2

\* a name of n characters
NameOfLength(n) == [i \in 1..n |-> "x"]

\* the names the text box can hold: empty, short, at the limit and over it
TagNames ==
    {<< >>} \cup {<<"v", ToString(i)>> : i \in 1..MaxTagNames}
        \cup {NameOfLength(MaxTagNameLength),
              NameOfLength(MaxTagNameLength + 1)}

\* item.includes(filter)
Includes(item, filter) ==
    \E i \in 0..(Len(item) - Len(filter)) :
        SubSeq(item, i + 1, i + Len(filter)) = filter

\* the names of the local tags that include the filter, null without tags
getExistingTagsFiltered(localTags, filter) ==
    IF IsNull(localTags) THEN Null
    ELSE Some({item \in Get(localTags) : Includes(item, filter)})

\* only the length of the name is checked
CreateTag_getCurrentError_LengthOnly(d) ==
    IF Len(d.tagName) > MaxTagNameLength THEN Some("too long") ELSE Null

\* the error shown for the name in the text box, null when there is none
CreateTag_getCurrentError(d) ==
    IF Len(d.tagName) > MaxTagNameLength THEN Some("too long")
    ELSE IF ~IsNull(d.localTags) /\ d.tagName \in Get(d.localTags)
         THEN Some("already exists")
         ELSE Null

\* the okButtonDisabled that render() hands to the button group
CreateTag_okButtonDisabled(d) ==
    ~IsNull(CreateTag_getCurrentError(d)) \/ Len(d.tagName) = 0

\* createTag up to its await: the state, with the call of
\* dispatcher.createTag in flight when the name is not empty
CreateTag_createTag(d) ==
    LET name == d.tagName
    IN  IF Len(name) > 0
        THEN [d EXCEPT !.isCreatingTag = TRUE,
                       !.pending = Append(d.pending, name),
                       !.dispatched = d.dispatched \cup {name}]
        ELSE d

\* the flag is reset when the call settles
CreateTag_afterAwait_ResetsFlag(d, outcome) ==
    IF outcome = "fulfilled"
    THEN [d EXCEPT !.pending = Tail(d.pending),
                   !.isCreatingTag = FALSE,
                   !.dismissals = d.dismissals + 1]
    ELSE [d EXCEPT !.pending = Tail(d.pending),
                   !.isCreatingTag = FALSE,
                   !.rejected = d.rejected + 1]

\* createTag after its await: timer.done() and onDismissed() when the call
\* was fulfilled; a rejection leaves createTag at the await, nothing of the
\* rest runs
CreateTag_afterAwait(d, outcome) ==
    IF outcome = "fulfilled"
    THEN [d EXCEPT !.pending = Tail(d.pending),
                   !.dismissals = d.dismissals + 1]
    ELSE [d EXCEPT !.pending = Tail(d.pending),
                   !.rejected = d.rejected + 1]

\* the dialog as the constructor leaves it: props.initialName is undefined
\* or a name, props.localTags null or the names of the repository's tags
CreateTagInit ==
    /\ PartsIdle
    /\ \E initialName \in {Null, Some(<< >>), Some(<<"v", "1">>)},
          localTags \in
              {Null, Some({}), Some({<<"v", "1">>}),
               Some({<<"v", "1">>, NameOfLength(MaxTagNameLength)})} :
           tagDialog =
               [pc |-> "mounted",
                initialName |-> initialName,
                localTags |-> localTags,
                tagName |->
                    IF IsNull(initialName) THEN << >> ELSE Get(initialName),
                isCreatingTag |-> FALSE,
                previousTags |-> getExistingTagsFiltered(localTags, << >>),
                pending |-> << >>,
                dispatched |-> {},
                submits |-> 0,
                rejected |-> 0,
                dismissals |-> 0]
    /\ reRunButton = [pc |-> "idle"]
    /\ discardSelection = [pc |-> "idle"]
    /\ discardStash = [pc |-> "idle"]
    /\ addExisting = [pc |-> "idle"]
    /\ conflictsWarning = [pc |-> "idle"]

\* the text box reports a new value
CreateTag_updateTagName(tagName) ==
    /\ tagDialog.pc = "mounted"
    /\ tagDialog.tagName # tagName
    /\ tagDialog' =
           [tagDialog EXCEPT
               !.tagName = tagName,
               !.previousTags =
                   getExistingTagsFiltered(tagDialog.localTags, tagName)]
    /\ UNCHANGED <<gitVars, platform, partVars, reRunButton,
                   discardSelection, discardStash, addExisting,
                   conflictsWarning>>

\* the form is submitted through the OK button, which render() enables
CreateTag_Submit ==
    /\ tagDialog.pc = "mounted"
    /\ tagDialog.submits < MaxTagSubmits
    /\ ~CreateTag_okButtonDisabled(tagDialog)
    /\ tagDialog' =
           [CreateTag_createTag(tagDialog) EXCEPT
               !.submits = tagDialog.submits + 1]
    /\ UNCHANGED <<gitVars, platform, partVars, reRunButton,
                   discardSelection, discardStash, addExisting,
                   conflictsWarning>>

\* the oldest call of dispatcher.createTag settles
CreateTag_Settles(outcome) ==
    /\ tagDialog.pc # "idle"
    /\ tagDialog.pending # << >>
    /\ tagDialog' = CreateTag_afterAwait(tagDialog, outcome)
    /\ UNCHANGED <<gitVars, platform, partVars, reRunButton,
                   discardSelection, discardStash, addExisting,
                   conflictsWarning>>

\* the user dismisses the dialog, which is then unmounted
CreateTag_Dismiss ==
    /\ tagDialog.pc = "mounted"
    /\ tagDialog' = [tagDialog EXCEPT
                        !.pc = "unmounted",
                        !.dismissals = tagDialog.dismissals + 1]
    /\ UNCHANGED <<gitVars, platform, partVars, reRunButton,
                   discardSelection, discardStash, addExisting,
                   conflictsWarning>>

CreateTagNext ==
    \/ \E tagName \in TagNames : CreateTag_updateTagName(tagName)
    \/ CreateTag_Submit
    \/ \E outcome \in Settlements : CreateTag_Settles(outcome)
    \/ CreateTag_Dismiss

SpecCreateTag == CreateTagInit /\ [][CreateTagNext]_vars

\* every call of dispatcher.createTag settles in the end
SpecCreateTagFair ==
    SpecCreateTag /\ WF_vars(\E outcome \in Settlements :
                                 CreateTag_Settles(outcome))

\* C32: once createTag has called dispatcher.createTag isCreatingTag is
\* true, and once true it is true in every later state, whatever name
\* changes, submits and settlements follow
C32_IsCreatingTagNeverReverts ==
    /\ [](tagDialog.pc # "idle" =>
              (tagDialog.dispatched # {} => tagDialog.isCreatingTag))
    /\ [][(tagDialog.pc # "idle" /\ tagDialog.isCreatingTag) =>
              tagDialog'.isCreatingTag]_vars

\* a call was rejected, another fulfilled, and the flag is still set
C32_Witness ==
    /\ tagDialog.pc # "idle"
    /\ tagDialog.isCreatingTag
    /\ tagDialog.pending = << >>
    /\ tagDialog.rejected = 1
    /\ tagDialog.submits = 2

\* C33: once tag creation has been initiated the dialog is dismissed in
\* the end, whether dispatcher.createTag is fulfilled or rejected
C33_EventuallyDismissed ==
    (tagDialog.pc # "idle" /\ tagDialog.isCreatingTag)
        ~> (tagDialog.pc # "idle" /\ tagDialog.dismissals > 0)

\* the name has none of the errors and is not empty
ValidTagName(d, name) ==
    /\ Len(name) > 0
    /\ Len(name) <= MaxTagNameLength
    /\ IsNull(d.localTags) \/ name \notin Get(d.localTags)

\* C40: the OK button is disabled exactly when the name is empty, longer
\* than 245 characters or a local tag; createTag calls the dispatcher
\* only for a name that is not empty; and every name a submit handed to
\* the dispatcher was neither too long nor a local tag
C40_OnlyValidNamesDispatched ==
    tagDialog.pc # "idle" =>
        /\ CreateTag_okButtonDisabled(tagDialog)
               <=> ~ValidTagName(tagDialog, tagDialog.tagName)
        /\ CreateTag_createTag(tagDialog).pending # tagDialog.pending
               <=> Len(tagDialog.tagName) > 0
        /\ \A name \in tagDialog.dispatched : ValidTagName(tagDialog, name)

\* a name at the limit was dispatched, and the box now holds a local tag
C40_Witness ==
    /\ tagDialog.pc = "mounted"
    /\ NameOfLength(MaxTagNameLength) \in tagDialog.dispatched
    /\ ~IsNull(tagDialog.localTags)
    /\ tagDialog.tagName \in Get(tagDialog.localTags)
    /\ CreateTag_okButtonDisabled(tagDialog)

(***************************************************************************)
(* DiscardSelection                                                        *)
(***************************************************************************)

\* the number of lines of the diff a selection can hold
MaxDiffLines == 2

\* the dialog as the constructor leaves it, for a file and a selection of
\* the lines of its diff
DiscardSelectionInit ==
    /\ PartsIdle
    /\ \E path \in {"a.txt", "b.txt"}, selection \in SUBSET (1..MaxDiffLines) :
           discardSelection =
               [pc |-> "mounted",
                file |-> path,
                selection |-> selection,
                isDiscardingSelection |-> FALSE,
                confirmDiscardSelection |-> TRUE,
                pending |-> Null,
                setting |-> Null,
                dismissals |-> 0,
                calls |-> << >>]
    /\ tagDialog = [pc |-> "idle"]
    /\ reRunButton = [pc |-> "idle"]
    /\ discardStash = [pc |-> "idle"]
    /\ addExisting = [pc |-> "idle"]
    /\ conflictsWarning = [pc |-> "idle"]

\* the checkbox is checked or cleared
DiscardSelection_onConfirmDiscardSelectionChanged(checked) ==
    /\ discardSelection.pc = "mounted"
    /\ discardSelection.confirmDiscardSelection # ~checked
    /\ discardSelection' =
           [discardSelection EXCEPT !.confirmDiscardSelection = ~checked]
    /\ UNCHANGED <<gitVars, platform, partVars, tagDialog, reRunButton,
                   discardStash, addExisting, conflictsWarning>>

\* the form is submitted through the OK button, which render() disables
\* while isDiscardingSelection: discard runs up to its await
DiscardSelection_discard ==
    /\ discardSelection.pc = "mounted"
    /\ ~discardSelection.isDiscardingSelection
    /\ discardSelection' =
           [discardSelection EXCEPT
               !.isDiscardingSelection = TRUE,
               !.pending = Some([path |-> discardSelection.file,
                                 selection |-> discardSelection.selection]),
               !.calls = Append(discardSelection.calls,
                                "discardChangesFromSelection")]
    /\ UNCHANGED <<gitVars, platform, partVars, tagDialog, reRunButton,
                   discardStash, addExisting, conflictsWarning>>

\* the call of dispatcher.discardChangesFromSelection settles: fulfilled,
\* discard persists the setting and calls onDismissed; rejected, discard
\* ends at the await
DiscardSelection_discardSettles(outcome) ==
    /\ discardSelection.pc # "idle"
    /\ ~IsNull(discardSelection.pending)
    /\ discardSelection' =
           IF outcome = "fulfilled"
           THEN [discardSelection EXCEPT
                    !.pc = "unmounted",
                    !.pending = Null,
                    !.setting =
                        Some(discardSelection.confirmDiscardSelection),
                    !.dismissals = discardSelection.dismissals + 1,
                    !.calls = discardSelection.calls \o
                                  <<"fulfilled",
                                    "setConfirmDiscardChangesSetting",
                                    "onDismissed">>]
           ELSE [discardSelection EXCEPT
                    !.pending = Null,
                    !.calls = Append(discardSelection.calls, "rejected")]
    /\ UNCHANGED <<gitVars, platform, partVars, tagDialog, reRunButton,
                   discardStash, addExisting, conflictsWarning>>

\* the user dismisses the dialog, which render() allows while not
\* isDiscardingSelection
DiscardSelection_onDismissed ==
    /\ discardSelection.pc = "mounted"
    /\ ~discardSelection.isDiscardingSelection
    /\ discardSelection' =
           [discardSelection EXCEPT
               !.pc = "unmounted",
               !.dismissals = discardSelection.dismissals + 1,
               !.calls = Append(discardSelection.calls, "onDismissed")]
    /\ UNCHANGED <<gitVars, platform, partVars, tagDialog, reRunButton,
                   discardStash, addExisting, conflictsWarning>>

DiscardSelectionNext ==
    \/ \E checked \in BOOLEAN :
           DiscardSelection_onConfirmDiscardSelectionChanged(checked)
    \/ DiscardSelection_discard
    \/ \E outcome \in Settlements : DiscardSelection_discardSettles(outcome)
    \/ DiscardSelection_onDismissed

SpecDiscardSelection == DiscardSelectionInit /\ [][DiscardSelectionNext]_vars

\* every call of dispatcher.discardChangesFromSelection settles in the end
SpecDiscardSelectionFair ==
    SpecDiscardSelection
        /\ WF_vars(\E outcome \in Settlements :
                       DiscardSelection_discardSettles(outcome))

\* while the discard is pending the dialog is loading and the user cannot
\* dismiss it, and what the dialog has called is a prefix of: the discard,
\* its completion, the setting persisted, the dismissal
DiscardSelectionInOrder ==
    discardSelection.pc # "idle" =>
        /\ ~IsNull(discardSelection.pending) =>
               /\ discardSelection.isDiscardingSelection
               /\ discardSelection.dismissals = 0
        /\ discardSelection.isDiscardingSelection =>
               \E n \in 1..4 :
                   discardSelection.calls \in
                       {SubSeq(<<"discardChangesFromSelection", "fulfilled",
                                 "setConfirmDiscardChangesSetting",
                                 "onDismissed">>, 1, n),
                        <<"discardChangesFromSelection", "rejected">>}

\* C34: after the submit the user cannot dismiss the dialog while the
\* discard is pending; when the discard finishes the setting is persisted
\* and then onDismissed is called; and the dialog does not stay loading
\* with dismissal disabled for ever
C34_DiscardEndsInDismissal ==
    /\ []DiscardSelectionInOrder
    /\ (discardSelection.pc # "idle"
            /\ discardSelection.isDiscardingSelection)
           ~> (discardSelection.pc # "idle"
                   /\ discardSelection.dismissals > 0)

(***************************************************************************)
(* ConfirmDiscardStashDialog                                               *)
(***************************************************************************)

\* the number of stash entries the dialog can be opened for
MaxStashEntries == 2

\* the number of times the form is submitted
MaxStashSubmits == 2

\* the dialog as the constructor leaves it
ConfirmDiscardStashInit ==
    /\ PartsIdle
    /\ \E stash \in 1..MaxStashEntries, ask \in BOOLEAN :
           discardStash =
               [pc |-> "mounted",
                stash |-> stash,
                isDiscarding |-> FALSE,
                confirmDiscardStash |-> ask,
                pending |-> Null,
                setting |-> Null,
                submits |-> 0,
                fulfilled |-> 0,
                rejected |-> 0,
                dismissedBySubmit |-> 0,
                dismissedByUser |-> 0,
                calls |-> << >>]
    /\ tagDialog = [pc |-> "idle"]
    /\ reRunButton = [pc |-> "idle"]
    /\ discardSelection = [pc |-> "idle"]
    /\ addExisting = [pc |-> "idle"]
    /\ conflictsWarning = [pc |-> "idle"]

\* isDiscarding is reset only when dropStash was fulfilled
ConfirmDiscardStashDialog_afterAwait_NoFinally(d, outcome) ==
    IF outcome = "fulfilled"
    THEN [d EXCEPT !.pc = "unmounted",
                   !.pending = Null,
                   !.isDiscarding = FALSE,
                   !.fulfilled = d.fulfilled + 1,
                   !.dismissedBySubmit = d.dismissedBySubmit + 1,
                   !.calls = d.calls \o <<"fulfilled", "onDismissed">>]
    ELSE [d EXCEPT !.pending = Null,
                   !.rejected = d.rejected + 1,
                   !.calls = Append(d.calls, "rejected")]

\* onSubmit after its await: the finally block resets isDiscarding of a
\* mounted dialog; then onDismissed() when dropStash was fulfilled, while a
\* rejection leaves onSubmit after the finally block
ConfirmDiscardStashDialog_afterAwait(d, outcome) ==
    LET reset == IF d.pc = "mounted" THEN FALSE ELSE d.isDiscarding
    IN  IF outcome = "fulfilled"
        THEN [d EXCEPT !.pc = "unmounted",
                       !.pending = Null,
                       !.isDiscarding = reset,
                       !.fulfilled = d.fulfilled + 1,
                       !.dismissedBySubmit = d.dismissedBySubmit + 1,
                       !.calls = d.calls \o <<"fulfilled", "onDismissed">>]
        ELSE [d EXCEPT !.pending = Null,
                       !.isDiscarding = reset,
                       !.rejected = d.rejected + 1,
                       !.calls = Append(d.calls, "rejected")]

\* the checkbox is checked or cleared
ConfirmDiscardStashDialog_onAskForConfirmationOnDiscardStashChanged(checked) ==
    /\ discardStash.pc = "mounted"
    /\ ~discardStash.isDiscarding
    /\ discardStash.confirmDiscardStash # ~checked
    /\ discardStash' = [discardStash EXCEPT !.confirmDiscardStash = ~checked]
    /\ UNCHANGED <<gitVars, platform, partVars, tagDialog, reRunButton,
                   discardSelection, addExisting, conflictsWarning>>

\* the form of the dialog, which is disabled while isDiscarding, is
\* submitted: onSubmit runs up to its await
ConfirmDiscardStashDialog_onSubmit ==
    /\ discardStash.pc = "mounted"
    /\ ~discardStash.isDiscarding
    /\ discardStash.submits < MaxStashSubmits
    /\ discardStash' =
           [discardStash EXCEPT
               !.isDiscarding = TRUE,
               !.setting = Some(discardStash.confirmDiscardStash),
               !.pending = Some(discardStash.stash),
               !.submits = discardStash.submits + 1,
               !.calls = discardStash.calls \o
                             <<"setConfirmDiscardStashSetting",
                               "dropStash">>]
    /\ UNCHANGED <<gitVars, platform, partVars, tagDialog, reRunButton,
                   discardSelection, addExisting, conflictsWarning>>

\* the call of dispatcher.dropStash settles
ConfirmDiscardStashDialog_dropStashSettles(outcome) ==
    /\ discardStash.pc # "idle"
    /\ ~IsNull(discardStash.pending)
    /\ discardStash' =
           ConfirmDiscardStashDialog_afterAwait(discardStash, outcome)
    /\ UNCHANGED <<gitVars, platform, partVars, tagDialog, reRunButton,
                   discardSelection, addExisting, conflictsWarning>>

\* the user dismisses the dialog, which is then unmounted
ConfirmDiscardStashDialog_onDismissed ==
    /\ discardStash.pc = "mounted"
    /\ discardStash' =
           [discardStash EXCEPT
               !.pc = "unmounted",
               !.dismissedByUser = discardStash.dismissedByUser + 1]
    /\ UNCHANGED <<gitVars, platform, partVars, tagDialog, reRunButton,
                   discardSelection, addExisting, conflictsWarning>>

ConfirmDiscardStashNext ==
    \/ \E checked \in BOOLEAN :
         ConfirmDiscardStashDialog_onAskForConfirmationOnDiscardStashChanged(
             checked)
    \/ ConfirmDiscardStashDialog_onSubmit
    \/ \E outcome \in Settlements :
           ConfirmDiscardStashDialog_dropStashSettles(outcome)
    \/ ConfirmDiscardStashDialog_onDismissed

SpecConfirmDiscardStash ==
    ConfirmDiscardStashInit /\ [][ConfirmDiscardStashNext]_vars

\* C36: isDiscarding of the mounted dialog is true exactly while dropStash
\* is pending, so it is reset after a fulfilled and after a rejected drop;
\* onSubmit has called onDismissed once for every fulfilled drop and never
\* for a rejected one; and every call of dropStash comes right after the
\* setting was persisted, so the setting is persisted when a drop failed
C36_StashDiscardSettlesCleanly ==
    discardStash.pc # "idle" =>
        /\ discardStash.pc = "mounted" =>
               (discardStash.isDiscarding <=> ~IsNull(discardStash.pending))
        /\ discardStash.dismissedBySubmit = discardStash.fulfilled
        /\ \A i \in 1..Len(discardStash.calls) :
               /\ discardStash.calls[i] = "dropStash" =>
                      /\ i > 1
                      /\ discardStash.calls[i - 1] =
                             "setConfirmDiscardStashSetting"
               /\ discardStash.calls[i] = "onDismissed" =>
                      /\ i > 1
                      /\ discardStash.calls[i - 1] = "fulfilled"
        /\ discardStash.rejected > 0 => ~IsNull(discardStash.setting)

\* a drop was rejected: the dialog is open, idle again, not dismissed, and
\* the setting is persisted
C36_Witness ==
    /\ discardStash.pc = "mounted"
    /\ discardStash.rejected = 1
    /\ discardStash.fulfilled = 0
    /\ ~discardStash.isDiscarding
    /\ discardStash.dismissedBySubmit = 0
    /\ discardStash.setting = Some(FALSE)

(***************************************************************************)
(* CICheckReRunButton                                                      *)
(***************************************************************************)

\* the number of check runs the button is given
MaxCheckRuns == 2

\* the keys the button can receive
Keys == {"ArrowDown", "ArrowUp", "Enter"}

\* some check run has the conclusion Failure
CICheckReRunButton_failedChecksExist(b) ==
    \E i \in 1..Len(b.checkRuns) : b.checkRuns[i] = "failure"

\* what onRerunChecks does: a call of props.onRerunChecks(false), or the
\* contextual menu of the two items
CICheckReRunButton_onRerunChecks(b) ==
    IF ~b.canReRunFailed \/ ~CICheckReRunButton_failedChecksExist(b)
    THEN [effect |-> "rerun", failedOnly |-> FALSE]
    ELSE [effect |-> "menu", failedOnly |-> FALSE]

\* ArrowDown is handed to onRerunChecks whatever the props are
CICheckReRunButton_onRerunKeyDown_Unguarded(b, key) ==
    IF key = "ArrowDown"
    THEN CICheckReRunButton_onRerunChecks(b)
    ELSE [effect |-> "none", failedOnly |-> FALSE]

\* what onRerunKeyDown does for a key
CICheckReRunButton_onRerunKeyDown(b, key) ==
    IF ~b.canReRunFailed \/ ~CICheckReRunButton_failedChecksExist(b)
    THEN [effect |-> "none", failedOnly |-> FALSE]
    ELSE IF key = "ArrowDown"
         THEN CICheckReRunButton_onRerunChecks(b)
         ELSE [effect |-> "none", failedOnly |-> FALSE]

\* the button as it is mounted, with its props
CICheckReRunButtonInit ==
    /\ PartsIdle
    /\ \E disabled \in BOOLEAN, canReRunFailed \in BOOLEAN,
          checkRuns \in TextsUpTo({"success", "failure", "neutral"},
                                  MaxCheckRuns) :
           reRunButton =
               [pc |-> "mounted",
                disabled |-> disabled,
                canReRunFailed |-> canReRunFailed,
                checkRuns |-> checkRuns,
                menu |-> Null,
                last |-> [kind |-> "none", effect |-> "none",
                          failedOnly |-> FALSE]]
    /\ tagDialog = [pc |-> "idle"]
    /\ discardSelection = [pc |-> "idle"]
    /\ discardStash = [pc |-> "idle"]
    /\ addExisting = [pc |-> "idle"]
    /\ conflictsWarning = [pc |-> "idle"]

\* the outcome of an event: the menu is shown when the handler asked for it
AfterEvent(b, kind, outcome) ==
    [b EXCEPT !.menu = IF outcome.effect = "menu"
                       THEN Some(<<TRUE, FALSE>>)
                       ELSE b.menu,
              !.last = [kind |-> kind, effect |-> outcome.effect,
                        failedOnly |-> outcome.failedOnly]]

\* the button, which is not disabled, is clicked
CICheckReRunButton_Click ==
    /\ reRunButton.pc = "mounted"
    /\ ~reRunButton.disabled
    /\ IsNull(reRunButton.menu)
    /\ reRunButton' =
           AfterEvent(reRunButton, "click",
                      CICheckReRunButton_onRerunChecks(reRunButton))
    /\ UNCHANGED <<gitVars, platform, partVars, tagDialog, discardSelection,
                   discardStash, addExisting, conflictsWarning>>

\* the button, which is not disabled, receives a key
CICheckReRunButton_KeyDown(key) ==
    /\ reRunButton.pc = "mounted"
    /\ ~reRunButton.disabled
    /\ IsNull(reRunButton.menu)
    /\ reRunButton' =
           AfterEvent(reRunButton, "key",
                      CICheckReRunButton_onRerunKeyDown(reRunButton, key))
    /\ UNCHANGED <<gitVars, platform, partVars, tagDialog, discardSelection,
                   discardStash, addExisting, conflictsWarning>>

\* an item of the contextual menu is chosen and its action runs
CICheckReRunButton_MenuItem(i) ==
    /\ reRunButton.pc = "mounted"
    /\ ~IsNull(reRunButton.menu)
    /\ reRunButton' =
           [reRunButton EXCEPT
               !.menu = Null,
               !.last = [kind |-> "menu", effect |-> "rerun",
                         failedOnly |-> Get(reRunButton.menu)[i]]]
    /\ UNCHANGED <<gitVars, platform, partVars, tagDialog, discardSelection,
                   discardStash, addExisting, conflictsWarning>>

\* the contextual menu is closed without a choice
CICheckReRunButton_MenuClosed ==
    /\ reRunButton.pc = "mounted"
    /\ ~IsNull(reRunButton.menu)
    /\ reRunButton' =
           [reRunButton EXCEPT
               !.menu = Null,
               !.last = [kind |-> "menu", effect |-> "none",
                         failedOnly |-> FALSE]]
    /\ UNCHANGED <<gitVars, platform, partVars, tagDialog, discardSelection,
                   discardStash, addExisting, conflictsWarning>>

CICheckReRunButtonNext ==
    \/ CICheckReRunButton_Click
    \/ \E key \in Keys : CICheckReRunButton_KeyDown(key)
    \/ \E i \in 1..2 : CICheckReRunButton_MenuItem(i)
    \/ CICheckReRunButton_MenuClosed

SpecCICheckReRunButton ==
    CICheckReRunButtonInit /\ [][CICheckReRunButtonNext]_vars

\* canReRunFailed is true and a check run failed
MenuCase(b) == b.canReRunFailed /\ CICheckReRunButton_failedChecksExist(b)

\* C38: onRerunChecks(true) is called by an item of the contextual menu
\* only; the menu is shown only when canReRunFailed is true and a check run
\* has the conclusion Failure; in every other case a click calls
\* onRerunChecks(false) at once and no key does anything
C38_FailedOnlyThroughMenu ==
    reRunButton.pc # "idle" =>
        LET last == reRunButton.last
        IN  /\ (last.effect = "rerun" /\ last.failedOnly) =>
                   last.kind = "menu"
            /\ (~IsNull(reRunButton.menu) \/ last.effect = "menu"
                    \/ last.kind = "menu") => MenuCase(reRunButton)
            /\ (last.kind = "click" /\ ~MenuCase(reRunButton)) =>
                   (last.effect = "rerun" /\ ~last.failedOnly)
            /\ (last.kind = "key" /\ ~MenuCase(reRunButton)) =>
                   last.effect = "none"
            /\ \A key \in Keys :
                   ~MenuCase(reRunButton) =>
                       CICheckReRunButton_onRerunKeyDown(
                           reRunButton, key).effect = "none"

\* the failed checks were re-run from the menu
C38_Witness ==
    /\ reRunButton.pc = "mounted"
    /\ reRunButton.last.kind = "menu"
    /\ reRunButton.last.effect = "rerun"
    /\ reRunButton.last.failedOnly
    /\ Len(reRunButton.checkRuns) = 2

(***************************************************************************)
(* CommitConflictsWarning                                                  *)
(***************************************************************************)

\* the number of conflicted files that were selected for the commit
MaxConflictedFiles == 2

\* the modal as it is mounted, with the files and the context of the commit
CommitConflictsWarningInit ==
    /\ PartsIdle
    /\ \E files \in SUBSET (1..MaxConflictedFiles) \ {{}},
          summary \in {"s1", "s2"}, amend \in BOOLEAN :
           conflictsWarning =
               [pc |-> "mounted",
                files |-> files,
                context |-> [summary |-> summary, amend |-> amend],
                pending |-> Null,
                calls |-> << >>]
    /\ tagDialog = [pc |-> "idle"]
    /\ reRunButton = [pc |-> "idle"]
    /\ discardSelection = [pc |-> "idle"]
    /\ discardStash = [pc |-> "idle"]
    /\ addExisting = [pc |-> "idle"]

\* the banner is cleared and the message reset whatever the outcome
CommitConflictsWarning_afterAwait_Regardless(d, outcome) ==
    [d EXCEPT !.pending = Null,
              !.calls = d.calls \o <<outcome, "clearBanner",
                                     "setCommitMessage">>]

\* onSubmit after its await: clearBanner() and setCommitMessage(repository,
\* DefaultCommitMessage) when the commit was fulfilled; a rejection leaves
\* onSubmit at the await
CommitConflictsWarning_afterAwait(d, outcome) ==
    IF outcome = "fulfilled"
    THEN [d EXCEPT !.pending = Null,
                   !.calls = d.calls \o <<"fulfilled", "clearBanner",
                                          "setCommitMessage">>]
    ELSE [d EXCEPT !.pending = Null,
                   !.calls = Append(d.calls, "rejected")]

\* the user dismisses the modal
CommitConflictsWarning_onCancel ==
    /\ conflictsWarning.pc = "mounted"
    /\ conflictsWarning' =
           [conflictsWarning EXCEPT
               !.pc = "unmounted",
               !.calls = Append(conflictsWarning.calls, "onDismissed")]
    /\ UNCHANGED <<gitVars, platform, partVars, tagDialog, reRunButton,
                   discardSelection, discardStash, addExisting>>

\* the form is submitted: onSubmit dismisses the modal and runs up to its
\* await
CommitConflictsWarning_onSubmit ==
    /\ conflictsWarning.pc = "mounted"
    /\ conflictsWarning' =
           [conflictsWarning EXCEPT
               !.pc = "unmounted",
               !.pending = Some(conflictsWarning.context),
               !.calls = conflictsWarning.calls \o
                             <<"onDismissed", "commitIncludedChanges">>]
    /\ UNCHANGED <<gitVars, platform, partVars, tagDialog, reRunButton,
                   discardSelection, discardStash, addExisting>>

\* the call of dispatcher.commitIncludedChanges settles
CommitConflictsWarning_commitSettles(outcome) ==
    /\ conflictsWarning.pc # "idle"
    /\ ~IsNull(conflictsWarning.pending)
    /\ conflictsWarning' =
           CommitConflictsWarning_afterAwait(conflictsWarning, outcome)
    /\ UNCHANGED <<gitVars, platform, partVars, tagDialog, reRunButton,
                   discardSelection, discardStash, addExisting>>

CommitConflictsWarningNext ==
    \/ CommitConflictsWarning_onCancel
    \/ CommitConflictsWarning_onSubmit
    \/ \E outcome \in Settlements :
           CommitConflictsWarning_commitSettles(outcome)

SpecCommitConflictsWarning ==
    CommitConflictsWarningInit /\ [][CommitConflictsWarningNext]_vars

\* C39: the commit is started right after the modal was dismissed;
\* clearBanner comes right after the commit was fulfilled and the reset of
\* the commit message right after clearBanner; after a rejected commit
\* neither of the two is called
C39_BannerClearedAfterCommit ==
    conflictsWarning.pc # "idle" =>
        LET calls == conflictsWarning.calls
        IN  /\ \A i \in 1..Len(calls) :
                   /\ calls[i] = "commitIncludedChanges" =>
                          (i > 1 /\ calls[i - 1] = "onDismissed")
                   /\ calls[i] = "clearBanner" =>
                          (i > 1 /\ calls[i - 1] = "fulfilled")
                   /\ calls[i] = "setCommitMessage" =>
                          (i > 1 /\ calls[i - 1] = "clearBanner")
                   /\ calls[i] = "fulfilled" =>
                          (i + 2 <= Len(calls)
                               /\ calls[i + 1] = "clearBanner"
                               /\ calls[i + 2] = "setCommitMessage")
            /\ (\E i \in 1..Len(calls) : calls[i] = "rejected") =>
                   \A i \in 1..Len(calls) :
                       calls[i] \notin {"clearBanner", "setCommitMessage"}

\* the commit was rejected after the modal was dismissed
C39_Witness ==
    /\ conflictsWarning.pc = "unmounted"
    /\ conflictsWarning.calls =
           <<"onDismissed", "commitIncludedChanges", "rejected">>

(***************************************************************************)
(* AddExistingRepository                                                   *)
(***************************************************************************)

\* the number of folders the user can enter
MaxRepositoryPaths == 2

\* the number of validations in flight, those onTrustDirectory is about to
\* start included
MaxValidations == 2

\* the validations of the dialog that are in flight or about to start
InFlight(d) == Len(d.validating) + Len(d.trusting)

\* what the path box can hold: nothing, or a folder
RepositoryPaths ==
    {""} \cup {"repo" \o ToString(i) : i \in 1..MaxRepositoryPaths}

\* what getRepositoryType answers for a path
RepositoryTypes(path) ==
    {[kind |-> "missing"], [kind |-> "regular"], [kind |-> "bare"],
     [kind |-> "unsafe", path |-> path]}

\* the warning state of the dialog
WarningState(d) ==
    [showNonGitRepositoryWarning |-> d.showNonGitRepositoryWarning,
     isRepositoryBare |-> d.isRepositoryBare,
     isRepositoryUnsafe |-> d.isRepositoryUnsafe,
     repositoryUnsafePath |-> d.repositoryUnsafePath]

\* the warning state validatePath computes from a type
WarningStateOf(type) ==
    LET isRepository == type.kind # "missing" /\ type.kind # "unsafe"
        isRepositoryBare == type.kind = "bare"
    IN  [showNonGitRepositoryWarning |-> ~isRepository \/ isRepositoryBare,
         isRepositoryBare |-> isRepositoryBare,
         isRepositoryUnsafe |-> type.kind = "unsafe",
         repositoryUnsafePath |->
             IF type.kind = "unsafe" THEN Some(type.path) ELSE Null]

\* the state with a warning state set
WithWarningState(d, w) ==
    [d EXCEPT
        !.showNonGitRepositoryWarning = w.showNonGitRepositoryWarning,
        !.isRepositoryBare = w.isRepositoryBare,
        !.isRepositoryUnsafe = w.isRepositoryUnsafe,
        !.repositoryUnsafePath = w.repositoryUnsafePath]

\* the result is applied whatever the path box holds by now
AddExistingRepository_validatePath_Unconditional(d, path, type) ==
    IF d.pc = "mounted" THEN WithWarningState(d, WarningStateOf(type)) ELSE d

\* validatePath after its await, for a path that is not empty: the state
\* of the mounted dialog after setState(state => path === state.path ? ...)
AddExistingRepository_validatePath(d, path, type) ==
    IF d.pc = "mounted" /\ path = d.path
    THEN WithWarningState(d, WarningStateOf(type))
    ELSE d

\* a bare repository is accepted
AddExistingRepository_isValidPath_BareAccepted(path, type) ==
    path # "" /\ type.kind # "missing" /\ type.kind # "unsafe"

\* what validatePath returns
AddExistingRepository_isValidPath(path, type) ==
    /\ path # ""
    /\ type.kind # "missing" /\ type.kind # "unsafe"
    /\ type.kind # "bare"

\* no handler has completed yet
NoCompletion ==
    [caller |-> "none", path |-> "", kind |-> "none", mounted |-> TRUE,
     dismissed |-> FALSE, dispatched |-> FALSE, focused |-> FALSE]

\* the dialog as the constructor leaves it, props.path undefined or given
AddExistingRepositoryInit ==
    /\ PartsIdle
    /\ \E path \in RepositoryPaths :
           addExisting =
               [pc |-> "mounted",
                path |-> path,
                showNonGitRepositoryWarning |-> FALSE,
                isRepositoryBare |-> FALSE,
                isRepositoryUnsafe |-> FALSE,
                repositoryUnsafePath |-> Null,
                isTrustingRepository |-> FALSE,
                trusting |-> Null,
                validating |-> << >>,
                adding |-> << >>,
                dismissals |-> 0,
                selected |-> {},
                foldoutClosed |-> FALSE,
                gotRepositories |-> {},
                last |-> NoCompletion]
    /\ tagDialog = [pc |-> "idle"]
    /\ reRunButton = [pc |-> "idle"]
    /\ discardSelection = [pc |-> "idle"]
    /\ discardStash = [pc |-> "idle"]
    /\ conflictsWarning = [pc |-> "idle"]

\* the path box reports a new value, or a folder is picked
AddExistingRepository_onPathChanged(path) ==
    /\ addExisting.pc = "mounted"
    /\ addExisting.path # path
    /\ addExisting' = [addExisting EXCEPT !.path = path]
    /\ UNCHANGED <<gitVars, platform, partVars, tagDialog, reRunButton,
                   discardSelection, discardStash, conflictsWarning>>

\* the form is submitted: addRepository runs up to the await of
\* getRepositoryType; for an empty path validatePath resets two warnings
\* and returns false, and addRepository focuses the path box and returns
AddExistingRepository_addRepository ==
    /\ addExisting.pc = "mounted"
    /\ InFlight(addExisting) < MaxValidations
    /\ addExisting' =
           IF addExisting.path = ""
           THEN [addExisting EXCEPT
                    !.isRepositoryBare = FALSE,
                    !.showNonGitRepositoryWarning = FALSE,
                    !.last = [caller |-> "add", path |-> "",
                              kind |-> "none", mounted |-> TRUE,
                              dismissed |-> FALSE, dispatched |-> FALSE,
                              focused |-> TRUE]]
           ELSE [addExisting EXCEPT
                    !.validating =
                        Append(addExisting.validating,
                               [caller |-> "add",
                                path |-> addExisting.path])]
    /\ UNCHANGED <<gitVars, platform, partVars, tagDialog, reRunButton,
                   discardSelection, discardStash, conflictsWarning>>

\* the link of the unsafe-repository error is clicked: onTrustDirectory
\* runs up to the await of addSafeDirectory
AddExistingRepository_onTrustDirectory ==
    /\ addExisting.pc = "mounted"
    /\ addExisting.path # ""
    /\ addExisting.showNonGitRepositoryWarning
    /\ ~addExisting.isRepositoryBare
    /\ addExisting.isRepositoryUnsafe
    /\ ~IsNull(addExisting.repositoryUnsafePath)
    /\ ~addExisting.isTrustingRepository
    /\ InFlight(addExisting) < MaxValidations
    /\ addExisting' =
           [addExisting EXCEPT
               !.isTrustingRepository = TRUE,
               !.trusting = Some(addExisting.path)]
    /\ UNCHANGED <<gitVars, platform, partVars, tagDialog, reRunButton,
                   discardSelection, discardStash, conflictsWarning>>

\* addSafeDirectory settles: fulfilled, onTrustDirectory validates the path
\* it read before the await; rejected, it ends there
AddExistingRepository_addSafeDirectorySettles(outcome) ==
    /\ addExisting.pc # "idle"
    /\ ~IsNull(addExisting.trusting)
    /\ addExisting' =
           IF outcome = "fulfilled"
           THEN [addExisting EXCEPT
                    !.trusting = Null,
                    !.validating =
                        Append(addExisting.validating,
                               [caller |-> "trust",
                                path |-> Get(addExisting.trusting)])]
           ELSE [addExisting EXCEPT !.trusting = Null]
    /\ UNCHANGED <<gitVars, platform, partVars, tagDialog, reRunButton,
                   discardSelection, discardStash, conflictsWarning>>

\* getRepositoryType answers one of the validations in flight: validatePath
\* finishes, and then its caller.  addRepository focuses the path box of
\* the mounted dialog and returns, or calls onDismissed and
\* dispatcher.addRepositories; onTrustDirectory resets isTrustingRepository
AddExistingRepository_validationCompletes(i) ==
    /\ addExisting.pc # "idle"
    /\ i \in 1..Len(addExisting.validating)
    /\ \E type \in RepositoryTypes(addExisting.validating[i].path) :
       LET v == addExisting.validating[i]
           rest == SubSeq(addExisting.validating, 1, i - 1)
                       \o SubSeq(addExisting.validating, i + 1,
                                 Len(addExisting.validating))
           d == [AddExistingRepository_validatePath(addExisting, v.path,
                                                    type)
                    EXCEPT !.validating = rest]
           valid == AddExistingRepository_isValidPath(v.path, type)
       IN  addExisting' =
                  IF v.caller = "trust"
                  THEN [d EXCEPT
                           !.isTrustingRepository =
                               IF d.pc = "mounted" THEN FALSE
                               ELSE d.isTrustingRepository,
                           !.last = [caller |-> "trust", path |-> v.path,
                                     kind |-> type.kind,
                                     mounted |-> d.pc = "mounted",
                                     dismissed |-> FALSE,
                                     dispatched |-> FALSE,
                                     focused |-> FALSE]]
                  ELSE IF valid
                  THEN [d EXCEPT
                           !.pc = "unmounted",
                           !.dismissals = d.dismissals + 1,
                           !.adding = Append(d.adding, v.path),
                           !.last = [caller |-> "add", path |-> v.path,
                                     kind |-> type.kind,
                                     mounted |-> d.pc = "mounted",
                                     dismissed |-> TRUE,
                                     dispatched |-> TRUE,
                                     focused |-> FALSE]]
                  ELSE [d EXCEPT
                           !.last = [caller |-> "add", path |-> v.path,
                                     kind |-> type.kind,
                                     mounted |-> d.pc = "mounted",
                                     dismissed |-> FALSE,
                                     dispatched |-> FALSE,
                                     focused |-> d.pc = "mounted"]]
    /\ UNCHANGED <<gitVars, platform, partVars, tagDialog, reRunButton,
                   discardSelection, discardStash, conflictsWarning>>

\* the oldest call of dispatcher.addRepositories settles: with a
\* repository, the foldout is closed and the repository selected
AddExistingRepository_addRepositoriesSettles(outcome) ==
    /\ addExisting.pc # "idle"
    /\ addExisting.adding # << >>
    /\ addExisting' =
           IF outcome = "one"
           THEN [addExisting EXCEPT
                    !.adding = Tail(addExisting.adding),
                    !.gotRepositories =
                        addExisting.gotRepositories
                            \cup {Head(addExisting.adding)},
                    !.foldoutClosed = TRUE,
                    !.selected =
                        addExisting.selected \cup {Head(addExisting.adding)}]
           ELSE [addExisting EXCEPT !.adding = Tail(addExisting.adding)]
    /\ UNCHANGED <<gitVars, platform, partVars, tagDialog, reRunButton,
                   discardSelection, discardStash, conflictsWarning>>

\* the user dismisses the dialog, which is then unmounted
AddExistingRepository_onDismissed ==
    /\ addExisting.pc = "mounted"
    /\ addExisting' = [addExisting EXCEPT !.pc = "unmounted"]
    /\ UNCHANGED <<gitVars, platform, partVars, tagDialog, reRunButton,
                   discardSelection, discardStash, conflictsWarning>>

AddExistingRepositoryNext ==
    \/ \E path \in RepositoryPaths : AddExistingRepository_onPathChanged(path)
    \/ AddExistingRepository_addRepository
    \/ AddExistingRepository_onTrustDirectory
    \/ \E outcome \in Settlements :
           AddExistingRepository_addSafeDirectorySettles(outcome)
    \/ \E i \in 1..MaxValidations :
           AddExistingRepository_validationCompletes(i)
    \/ \E outcome \in {"none", "one", "rejected"} :
           AddExistingRepository_addRepositoriesSettles(outcome)
    \/ AddExistingRepository_onDismissed

SpecAddExistingRepository ==
    AddExistingRepositoryInit /\ [][AddExistingRepositoryNext]_vars

\* a validation in flight finishes in this step
ValidationCompletes ==
    /\ addExisting.pc # "idle"
    /\ Len(addExisting'.validating) < Len(addExisting.validating)

\* C35: when a validation finishes, the warning state becomes the one
\* computed from its answer if the validated path is the path the mounted
\* dialog holds at that moment, and is left as it was if the path has been
\* superseded, under every interleaving of path changes and completions
C35_StaleValidationIgnored ==
    [][ValidationCompletes =>
           IF addExisting'.last.path = addExisting.path
                  /\ addExisting.pc = "mounted"
           THEN \E type \in RepositoryTypes(addExisting.path) :
                    /\ type.kind = addExisting'.last.kind
                    /\ WarningState(addExisting') = WarningStateOf(type)
           ELSE WarningState(addExisting') = WarningState(addExisting)]_vars

\* a validation of a superseded path has answered that the folder is
\* missing, and the warning state is still the one of the unsafe repository
\* at the path the dialog holds
C35_Witness ==
    /\ addExisting.pc = "mounted"
    /\ addExisting.last.caller = "add"
    /\ addExisting.last.path # addExisting.path
    /\ addExisting.last.kind = "missing"
    /\ addExisting.isRepositoryUnsafe
    /\ addExisting.path # ""

\* C37: addRepository calls onDismissed and dispatcher.addRepositories
\* exactly when the validation of the path it submitted answers a
\* repository that is not missing, unsafe or bare and the path is not
\* empty; otherwise it calls neither and focuses the path box of the
\* mounted dialog; and a repository is selected and the foldout closed only
\* for a call of addRepositories that returned a repository
C37_AddOnlyValidRepository ==
    addExisting.pc # "idle" =>
        LET last == addExisting.last
        IN  /\ last.caller = "add" =>
                   /\ last.dismissed <=>
                          (last.path # ""
                               /\ last.kind \notin
                                      {"none", "missing", "unsafe", "bare"})
                   /\ last.dispatched <=> last.dismissed
                   /\ ~last.dismissed => (last.focused <=> last.mounted)
                   /\ last.dismissed => ~last.focused
            /\ last.caller # "add" => (~last.dismissed /\ ~last.dispatched)
            /\ addExisting.selected \subseteq addExisting.gotRepositories
            /\ addExisting.foldoutClosed =>
                   addExisting.gotRepositories # {}
            /\ addExisting.dismissals > 0 => addExisting.pc = "unmounted"

\* a bare repository was refused and the path box focused
C37_Witness ==
    /\ addExisting.pc = "mounted"
    /\ addExisting.last.caller = "add"
    /\ addExisting.last.kind = "bare"
    /\ addExisting.last.focused
    /\ addExisting.dismissals = 0
    /\ addExisting.adding = << >>
====
